---- MODULE Spec2Model ----
(***************************************************************************)
(* FixEm: FIX 4.2 session emulator (src/emulator/server.py) with its       *)
(* scenario engine (src/ScenarioEngine.py).                                *)
(*                                                                         *)
(* One HandleClient thread per connection.  The class-level dictionary     *)
(* FixEmulatorServer.orders and the order dictionaries it holds are shared *)
(* by all threads without a lock, so the handler of one message is cut     *)
(* into steps at its accesses to that shared state.  Spec schedules a      *)
(* handler without preemption between the read of a message and its reply  *)
(* (scenario steps of different connections still interleave); SpecRace    *)
(* lets the threads interleave at every step.                              *)
(*                                                                         *)
(* An inbound message is the tag map ParseFixMessage returns; an absent    *)
(* tag and a tag with an empty value are both "" (the code tests           *)
(* `not fixFields.get(tag)`).                                              *)
(*                                                                         *)
(* Abstractions: the variable emitted holds the message the last step      *)
(* wrote to a socket (none if it wrote nothing); wire keeps per socket     *)
(* whether it is open, the tag 34 last written and the number of messages  *)
(* written.  One call of _sendScenarioExec (read the order, write it,      *)
(* send) is a single step.  In the specifications of the server every     *)
(* recv returns one whole frame, which the splitter passes on as it is;    *)
(* SpecFraming has the read loop on bytes, SpecCodec the codec on text,    *)
(* SpecCert the certification validator.  Floats are exact multiples of    *)
(* powers of 1/4, plus NaN.                                                *)
(***************************************************************************)
EXTENDS Integers, Sequences, FiniteSets, TLC

\* Total number of inbound messages the clients send (all connections).
MaxMsgs == 3

Conns == {"A", "B"}

\* ------------------------------------------------------------------------
\* Python floats.  The only arithmetic of the code is +, - and * 0.25 on
\* integers read from tag 38, which binary floating point does exactly, so a
\* float is the exact value n / 4^e, kept normalised; NaN is the float
\* float("nan") returns.
\* ------------------------------------------------------------------------

NaN == [n |-> 0, e |-> -1]
\* No value: the tag is not part of the message.
NoQ == [n |-> 0, e |-> -2]

RECURSIVE Pow4(_)
Pow4(e) == IF e = 0 THEN 1 ELSE 4 * Pow4(e - 1)

RECURSIVE Norm(_, _)
Norm(n, e) == IF e > 0 /\ n % 4 = 0 THEN Norm(n \div 4, e - 1) ELSE [n |-> n, e |-> e]

Flt(i) == [n |-> i, e |-> 0]

FMax(a, b) == IF a >= b THEN a ELSE b

FAdd(a, b) ==
    IF a = NaN \/ b = NaN THEN NaN
    ELSE LET e == FMax(a.e, b.e)
         IN  Norm(a.n * Pow4(e - a.e) + b.n * Pow4(e - b.e), e)

FSub(a, b) ==
    IF a = NaN \/ b = NaN THEN NaN
    ELSE LET e == FMax(a.e, b.e)
         IN  Norm(a.n * Pow4(e - a.e) - b.n * Pow4(e - b.e), e)

\* x * 0.25
FQuarter(a) == IF a = NaN THEN NaN ELSE Norm(a.n, a.e + 1)

\* Comparisons with NaN are all false.
FGt0(a) == a # NaN /\ a.n > 0
FLe0(a) == a # NaN /\ a.n <= 0
FEq(a, b) == a # NaN /\ b # NaN /\ a = b
FLe(a, b) == a # NaN /\ b # NaN /\ FSub(b, a).n >= 0

\* float(s) on the texts the clients send: the texts of FloatLit parse, every
\* other text ("" and "abc" among them) raises ValueError.
FloatLit == ("0" :> Flt(0)) @@ ("50" :> Flt(50)) @@ ("100" :> Flt(100)) @@ ("150" :> Flt(150))
            @@ ("200" :> Flt(200)) @@ ("nan" :> NaN)

FloatParses(s) == s \in DOMAIN FloatLit

\* int(s): the texts of IntLit parse, every other text raises ValueError.
IntLit == ("0" :> 0) @@ ("1" :> 1) @@ ("2" :> 2) @@ ("3" :> 3)

IntParses(s) == s \in DOMAIN IntLit

\* ------------------------------------------------------------------------
\* Messages
\* ------------------------------------------------------------------------

\* Inbound tag map (fixFields).
InMsg(t35, t34, t11, t41, t54, t38, t55, t40, t44) ==
    [t35 |-> t35, t34 |-> t34, t11 |-> t11, t41 |-> t41, t54 |-> t54,
     t38 |-> t38, t55 |-> t55, t40 |-> t40, t44 |-> t44]

NoMsg == InMsg("", "", "", "", "", "", "", "", "")

\* fixFields.get(tag)
Tag(m, tag) ==
    CASE tag = "35" -> m.t35
      [] tag = "34" -> m.t34
      [] tag = "11" -> m.t11
      [] tag = "41" -> m.t41
      [] tag = "54" -> m.t54
      [] tag = "38" -> m.t38
      [] tag = "55" -> m.t55
      [] tag = "40" -> m.t40
      [] tag = "44" -> m.t44

\* Outbound field map handed to BuildFixMessage, restricted to the tags the
\* properties read.  t34 is the number whose decimal text is sent; t32, t14
\* and t151 are the floats whose str() is sent; rid is the order record the
\* message is about (0: none) and kind tells which code path built it.
OutMsg(kind, t35, t34, t150, t39, t11, t41, t37, t371, t373, rid) ==
    [kind |-> kind, t35 |-> t35, t34 |-> t34, t150 |-> t150, t39 |-> t39,
     t11 |-> t11, t41 |-> t41, t37 |-> t37, t371 |-> t371, t373 |-> t373,
     t32 |-> NoQ, t14 |-> NoQ, t151 |-> NoQ, rid |-> rid]

NoOut == OutMsg("none", "", 0, "", "", "", "", 0, "", "", 0)

\* What the last step wrote to a socket.
NoEmit == [sock |-> "-", by |-> "-", m |-> NoOut]

\* ------------------------------------------------------------------------
\* Configuration: what ConfigLoader.loadAll hands to the server and to the
\* scenario engine (the YAML files are deployment input).
\* ------------------------------------------------------------------------

\* The characters of a symbol (TLA+ strings are not sequences).
Chars == ("AAPL" :> <<"A", "A", "P", "L">>) @@ ("GOOG" :> <<"G", "O", "O", "G">>)
         @@ ("MSFT" :> <<"M", "S", "F", "T">>)

\* fnmatch.fnmatch(symbol, pat) for patterns of literals, * and ?.
RECURSIVE Glob(_, _, _, _)
Glob(s, i, p, j) ==
    IF j > Len(p) THEN i > Len(s)
    ELSE IF p[j] = "*" THEN Glob(s, i, p, j + 1) \/ (i <= Len(s) /\ Glob(s, i + 1, p, j))
    ELSE i <= Len(s) /\ (p[j] = "?" \/ p[j] = s[i]) /\ Glob(s, i + 1, p, j + 1)

matcher(symbol, pat) == Glob(Chars[symbol], 1, pat, 1)

\* A matcher loop without the break: the last matching rule wins.
RECURSIVE LastMatch(_, _, _, _)
LastMatch(rules, i, symbol, default) ==
    IF i > Len(rules) THEN default
    ELSE LET later == LastMatch(rules, i + 1, symbol, default)
         IN  IF later # default THEN later
             ELSE IF matcher(symbol, rules[i].pattern) THEN rules[i].behavior
             ELSE default

\* The loop over sessionConfig["execution"]["rules"]: first match wins.
RECURSIVE FirstMatch(_, _, _, _)
FirstMatch(rules, i, symbol, default) ==
    IF i > Len(rules) THEN default
    ELSE IF matcher(symbol, rules[i].pattern) THEN rules[i].behavior
    ELSE FirstMatch(rules, i + 1, symbol, default)

chooseBehavior(config, symbol) ==
    FirstMatch(config.rules, 1, symbol, config.defaultBehavior)

Step(k, a) == [k |-> k, a |-> a]

\* behaviors.yaml of the specification's scenario 6, and a default.
BaseBehaviors ==
    ("partial_then_fill" :> <<Step("send", "partial"), Step("delay", "50"),
                              Step("send", "fill"), Step("end", "true")>>)
    @@ ("fill_now" :> <<Step("send", "fill")>>)

BaseConfig ==
    [defaultBehavior |-> "fill_now",
     rules |-> <<[pattern |-> <<"*", "A", "A", "P", "L", "*">>, behavior |-> "partial_then_fill"]>>,
     behaviors |-> BaseBehaviors]

\* ------------------------------------------------------------------------
\* messageUtils.py.  A Python str is the sequence of its code points; a
\* socket carries the UTF-8 bytes of the str (response.encode()).  A field
\* map is a dict: the sequence of its (tag, value) items in insertion order,
\* with distinct tags.  A value is whatever the caller put into the dict:
\* a str (k = "str", its code points in s), None (k = "none": what
\* fixFields.get("44") gives for a message without tag 44) or an int
\* (k = "int", its value in n: self._nextOutboundSeq()).
\* ------------------------------------------------------------------------

SOH == 1

\* Number of items of a field map given to BuildFixMessage.
MaxFields == 2

\* A str value of a dict.
Text(s) == [k |-> "str", s |-> s, n |-> 0]

\* str(n) of a natural number.
RECURSIVE Dec(_)
Dec(n) == IF n < 10 THEN <<48 + n>> ELSE Dec(n \div 10) \o <<48 + (n % 10)>>

\* f"{value}": the str itself, the digits of an int, the text None.
Str(value) ==
    CASE value.k = "str" -> value.s
      [] value.k = "int" -> Dec(value.n)
      [] OTHER -> <<78, 111, 110, 101>>

\* f"{checksum:03}"
Pad3(n) ==
    LET d == Dec(n)
    IN  IF Len(d) >= 3 THEN d
        ELSE IF Len(d) = 2 THEN <<48>> \o d ELSE <<48, 48>> \o d

\* sep.join(parts)
RECURSIVE Join(_, _)
Join(parts, sep) ==
    IF parts = <<>> THEN <<>>
    ELSE IF Len(parts) = 1 THEN parts[1]
    ELSE parts[1] \o sep \o Join(Tail(parts), sep)

\* str.encode("utf-8"), bytearray(message, "utf-8"): one byte for a code
\* point below 128, two below 2048, three below 65536.  (The text is halved,
\* not walked, to keep the evaluation of a long frame shallow.)
RECURSIVE Encode(_)
Encode(s) ==
    IF s = <<>> THEN <<>>
    ELSE IF Len(s) = 1
    THEN LET cp == s[1]
         IN  IF cp < 128 THEN <<cp>>
             ELSE IF cp < 2048 THEN <<192 + (cp \div 64), 128 + (cp % 64)>>
             ELSE <<224 + (cp \div 4096), 128 + ((cp \div 64) % 64), 128 + (cp % 64)>>
    ELSE Encode(SubSeq(s, 1, Len(s) \div 2)) \o Encode(SubSeq(s, Len(s) \div 2 + 1, Len(s)))

RECURSIVE Sum(_)
Sum(bytes) ==
    IF bytes = <<>> THEN 0
    ELSE IF Len(bytes) = 1 THEN bytes[1]
    ELSE Sum(SubSeq(bytes, 1, Len(bytes) \div 2))
         + Sum(SubSeq(bytes, Len(bytes) \div 2 + 1, Len(bytes)))

CalculateChecksum(message) == Sum(Encode(message)) % 256

\* bodyLength is len(body): the number of code points, whatever their
\* encoded width.
BuildFixMessage(fields) ==
    LET kept == SelectSeq(fields,
                          LAMBDA f : f.tag # Dec(8) /\ f.tag # Dec(9) /\ f.tag # Dec(10))
        body == Join([i \in 1..Len(kept) |-> kept[i].tag \o <<61>> \o Str(kept[i].value)],
                     <<SOH>>) \o <<SOH>>
        bodyLength == Len(body)
        header == <<56, 61, 70, 73, 88, 46, 52, 46, 50, SOH, 57, 61>> \o Dec(bodyLength) \o <<SOH>>
        msgWithoutChecksum == header \o body
        checksum == CalculateChecksum(msgWithoutChecksum)
    IN  msgWithoutChecksum \o <<49, 48, 61>> \o Pad3(checksum) \o <<SOH>>

\* raw.strip(): without the leading and trailing whitespace (str.isspace(),
\* for the code points below 256).
Strip(s) ==
    LET space == {9, 10, 11, 12, 13, 28, 29, 30, 31, 32, 133, 160}
        inked == {i \in 1..Len(s) : s[i] \notin space}
    IN  IF inked = {} THEN <<>>
        ELSE SubSeq(s, CHOOSE i \in inked : \A j \in inked : i <= j,
                       CHOOSE i \in inked : \A j \in inked : i >= j)

\* Index of the first occurrence of ch in s, 0 if there is none.
Find(s, ch) ==
    IF \E i \in 1..Len(s) : s[i] = ch
    THEN CHOOSE i \in 1..Len(s) : s[i] = ch /\ \A j \in 1..(i - 1) : s[j] # ch
    ELSE 0

\* s.split(ch)
RECURSIVE Split(_, _)
Split(s, ch) ==
    LET i == Find(s, ch)
    IN  IF i = 0 THEN <<s>>
        ELSE <<SubSeq(s, 1, i - 1)>> \o Split(SubSeq(s, i + 1, Len(s)), ch)

\* The dict of tag -> value, both str: every part with a "=" is cut at its
\* first "=", and a later part with the same tag overwrites the earlier one.
\* (No operation of the body raises on a str, so the except branch is never
\* taken.)
ParseFixMessage(raw) ==
    LET parts == Split(Strip(raw), SOH)
        fields == SelectSeq(parts, LAMBDA field : Find(field, 61) # 0)
        tag(i) == SubSeq(fields[i], 1, Find(fields[i], 61) - 1)
        value(i) == SubSeq(fields[i], Find(fields[i], 61) + 1, Len(fields[i]))
    IN  [t \in {tag(i) : i \in 1..Len(fields)} |->
            value(CHOOSE i \in 1..Len(fields) :
                      tag(i) = t /\ \A j \in (i + 1)..Len(fields) : tag(j) # t)]

\* ------------------------------------------------------------------------
\* cert/validator.py.  A message is a dict in insertion order: the sequence
\* of its items, with distinct tags.  A verdict is the text CheckFields
\* returns, kept as its parts: the mark, the label and the errors, each
\* error with its fixed wording and the tags it lists in the order of the
\* text.
\* ------------------------------------------------------------------------

\* Tags are written by their number: Dec(35) is the str "35"; the MsgTypes
\* "A" and "D" are <<65>> and <<68>>, "8", "5" and "0" are Dec(8), Dec(5)
\* and Dec(0).

\* tag in msg
HasTag(msg, tag) == \E i \in 1..Len(msg) : msg[i].tag = tag

\* msg.get(tag, "")
MsgGet(msg, tag) ==
    IF HasTag(msg, tag) THEN msg[CHOOSE i \in 1..Len(msg) : msg[i].tag = tag].value ELSE <<>>

\* msg[tag] = value: a new tag goes to the end, a known tag keeps its place.
MsgPut(msg, tag, value) ==
    IF HasTag(msg, tag)
    THEN [i \in 1..Len(msg) |-> IF msg[i].tag = tag THEN [tag |-> tag, value |-> value] ELSE msg[i]]
    ELSE Append(msg, [tag |-> tag, value |-> value])

\* self.customTagsByType.get(msgType, [])
customTagsByType(msgType) ==
    CASE msgType = <<68>> -> <<Dec(44), Dec(9140)>>
      [] msgType = Dec(8) -> <<Dec(20)>>
      [] OTHER -> <<>>

Range(seq) == {seq[i] : i \in 1..Len(seq)}

\* The custom tags left out of the allowed set.
AllowedWithoutCustom(requiredFields, optionalFields, customTags) ==
    Range(requiredFields) \cup Range(optionalFields)

\* set(requiredFields + optionalFields + customTags)
Allowed(requiredFields, optionalFields, customTags) ==
    Range(requiredFields) \cup Range(optionalFields) \cup Range(customTags)

CheckFields(label, requiredFields, optionalFields, conditionalPairs, msg) ==
    LET msgType == MsgGet(msg, Dec(35))
        customTags == customTagsByType(msgType)
        missing == SelectSeq(requiredFields, LAMBDA tag : ~HasTag(msg, tag))
        allowed == Allowed(requiredFields, optionalFields, customTags)
        tags == [i \in 1..Len(msg) |-> msg[i].tag]
        unexpected == SelectSeq(tags, LAMBDA tag : tag \notin allowed)
        half == SelectSeq(conditionalPairs,
                          LAMBDA pair : HasTag(msg, pair[1]) # HasTag(msg, pair[2]))
        conditionalErrors == [i \in 1..Len(half) |->
                                 [kind |-> "must both be present", tags |-> half[i]]]
        errors == (IF missing # <<>>
                   THEN <<[kind |-> "missing required tag(s)", tags |-> missing]>> ELSE <<>>)
                  \o (IF unexpected # <<>>
                      THEN <<[kind |-> "unexpected tag(s)", tags |-> unexpected]>> ELSE <<>>)
                  \o conditionalErrors
    IN  IF errors # <<>>
        THEN [mark |-> "invalid", label |-> label, errors |-> errors]
        ELSE [mark |-> "Valid", label |-> label, errors |-> <<>>]

\* The requiredFields, optionalFields and conditionalPairs of ValidateLogon,
\* ValidateLogout, ValidateNewOrder and ValidateExecutionReport, by MsgType.
Schema(msgType) ==
    CASE msgType = <<65>> ->
            [name |-> "Logon",
             required |-> <<Dec(8), Dec(9), Dec(35), Dec(49), Dec(56), Dec(34), Dec(52),
                            Dec(98), Dec(108), Dec(10)>>,
             optional |-> <<Dec(95), Dec(96), Dec(141), Dec(553), Dec(554), Dec(1137)>>,
             pairs |-> <<<<Dec(95), Dec(96)>>>>]
      [] msgType = Dec(5) ->
            [name |-> "Logout",
             required |-> <<Dec(8), Dec(9), Dec(35), Dec(49), Dec(56), Dec(34), Dec(52),
                            Dec(10)>>,
             optional |-> <<Dec(58)>>,
             pairs |-> <<>>]
      [] msgType = <<68>> ->
            [name |-> "NewOrderSingle",
             required |-> <<Dec(8), Dec(9), Dec(35), Dec(49), Dec(56), Dec(34), Dec(52),
                            Dec(11), Dec(21), Dec(55), Dec(54), Dec(38), Dec(40), Dec(60),
                            Dec(10)>>,
             optional |-> <<Dec(59), Dec(47), Dec(58), Dec(18), Dec(44), Dec(15), Dec(100),
                            Dec(207), Dec(848), Dec(849), Dec(99), Dec(110), Dec(111)>>,
             pairs |-> <<<<Dec(48), Dec(22)>>, <<Dec(95), Dec(96)>>>>]
      [] OTHER ->
            [name |-> "ExecutionReport",
             required |-> <<Dec(8), Dec(9), Dec(35), Dec(49), Dec(56), Dec(34), Dec(52),
                            Dec(11), Dec(17), Dec(150), Dec(39), Dec(55), Dec(54), Dec(38),
                            Dec(40), Dec(44), Dec(14), Dec(6), Dec(10)>>,
             optional |-> <<Dec(32), Dec(31), Dec(29), Dec(37), Dec(198), Dec(75), Dec(105),
                            Dec(60), Dec(151), Dec(100), Dec(207), Dec(848), Dec(849),
                            Dec(15)>>,
             pairs |-> <<<<Dec(48), Dec(22)>>, <<Dec(95), Dec(96)>>>>]

ValidateLogon(msg) ==
    LET sc == Schema(<<65>>) IN CheckFields(sc.name, sc.required, sc.optional, sc.pairs, msg)

ValidateLogout(msg) ==
    LET sc == Schema(Dec(5)) IN CheckFields(sc.name, sc.required, sc.optional, sc.pairs, msg)

ValidateNewOrder(msg) ==
    LET sc == Schema(<<68>>) IN CheckFields(sc.name, sc.required, sc.optional, sc.pairs, msg)

ValidateExecutionReport(msg) ==
    LET sc == Schema(Dec(8)) IN CheckFields(sc.name, sc.required, sc.optional, sc.pairs, msg)

ValidateMsgType(msgType, msg) ==
    CASE msgType = <<65>> -> ValidateLogon(msg)
      [] msgType = <<68>> -> ValidateNewOrder(msg)
      [] msgType = Dec(8) -> ValidateExecutionReport(msg)
      [] msgType = Dec(5) -> ValidateLogout(msg)
      [] OTHER -> [mark |-> "Unknown MsgType", label |-> msgType, errors |-> <<>>]

\* The loop over the fields of one line.
RECURSIVE ParseLineFields(_, _)
ParseLineFields(fields, msg) ==
    IF fields = <<>> THEN msg
    ELSE LET field == Head(fields)
             i == Find(field, 61)
         IN  IF i = 0 THEN ParseLineFields(Tail(fields), msg)
             ELSE ParseLineFields(Tail(fields),
                                  MsgPut(msg, SubSeq(field, 1, i - 1),
                                         SubSeq(field, i + 1, Len(field))))

\* One line of the log as a dict: split at "|" if the line has one, else at SOH.
ParseLine(line) ==
    LET delimiter == IF Find(line, 124) # 0 THEN 124 ELSE SOH
    IN  ParseLineFields(Split(line, delimiter), <<>>)

\* ParseMessages: from the state [parsedMessages, results] over the lines.
RECURSIVE ParseMessages(_, _)
ParseMessages(rawLines, v) ==
    IF rawLines = <<>> THEN v
    ELSE LET msg == ParseLine(Head(rawLines))
         IN  ParseMessages(Tail(rawLines),
                 IF HasTag(msg, Dec(35))
                 THEN [v EXCEPT !.parsedMessages = Append(@, msg)]
                 ELSE [v EXCEPT !.results =
                          Append(@, [label |-> <<"skipped">>,
                                     verdict |-> [mark |-> "Message skipped",
                                                  label |-> <<>>, errors |-> <<>>]])])

\* ValidateMessages: one (f"Line {idx}", result) per parsed message.
ValidateMessages(v) ==
    [v EXCEPT !.results =
        @ \o [idx \in 1..Len(v.parsedMessages) |->
                 [label |-> <<"Line", idx>>,
                  verdict |-> ValidateMsgType(MsgGet(v.parsedMessages[idx], Dec(35)),
                                              v.parsedMessages[idx])]]]

\* LoadLog: [line.strip() for line in file if line.strip()]
LoadLog(file) ==
    SelectSeq([i \in 1..Len(file) |-> Strip(file[i])], LAMBDA line : line # <<>>)

\* ------------------------------------------------------------------------
\* The read loop of HandleClient (server.py:311-331) on the bytes of the
\* socket: recv, decode, the splitter and ParseFixMessage.  What the loop
\* hands to the dispatch on tag 35 is recorded in the order it does so.
\* ------------------------------------------------------------------------

\* data.decode("utf-8"): the code points of the bytes, or UnicodeDecodeError
\* (ok = FALSE) at a byte that does not start a sequence or at a sequence
\* cut short.  Sequences of one and two bytes; the streams of the model hold
\* no longer ones.
Decode(data) ==
    LET n == Len(data)
        lead(i) == data[i] \in 194..223
        cont(i) == data[i] \in 128..191
        ok == \A i \in 1..n :
                 \/ data[i] < 128
                 \/ lead(i) /\ i < n /\ cont(i + 1)
                 \/ cont(i) /\ i > 1 /\ lead(i - 1)
        starts == SelectSeq([i \in 1..n |-> i], LAMBDA i : ~cont(i))
    IN  IF ok
        THEN [ok |-> TRUE,
              s |-> [j \in 1..Len(starts) |->
                        LET i == starts[j]
                        IN  IF lead(i) THEN (data[i] - 192) * 64 + (data[i + 1] - 128)
                            ELSE data[i]]]
        ELSE [ok |-> FALSE, s |-> <<>>]

\* buffer.partition(SOH * 2): cut at the first SOH followed by a SOH;
\* without the separator the whole buffer is the message and nothing is left.
Partition(buffer) ==
    LET seps == {i \in 1..(Len(buffer) - 1) : buffer[i] = SOH /\ buffer[i + 1] = SOH}
    IN  IF seps = {} THEN [message |-> buffer, rest |-> <<>>]
        ELSE LET i == CHOOSE i \in seps : \A j \in seps : i <= j
             IN  [message |-> SubSeq(buffer, 1, i - 1),
                  rest |-> SubSeq(buffer, i + 2, Len(buffer))]

\* while SOH in buffer: partition, parse, skip an empty dict, dispatch.
RECURSIVE Drain(_, _)
Drain(buffer, dispatched) ==
    IF Find(buffer, SOH) = 0 THEN [buffer |-> buffer, dispatched |-> dispatched]
    ELSE LET p == Partition(buffer)
             fixFields == ParseFixMessage(p.message \o <<SOH>>)
         IN  Drain(p.rest, IF DOMAIN fixFields = {} THEN dispatched
                           ELSE Append(dispatched, fixFields))

\* The codec, the validator and the read loop at rest: what they are in the
\* specifications that are about something else.
AtRest ==
    [codec |-> [pc |-> "off", fields |-> <<>>, fullMessage |-> <<>>, parsed |-> <<>>],
     cert |-> [pc |-> "off", rawLines |-> <<>>, parsedMessages |-> <<>>, results |-> <<>>],
     reader |-> [pc |-> "off", frames |-> <<>>, stream |-> <<>>, nReads |-> 0,
                 buffer |-> <<>>, dispatched |-> <<>>]]

\* ------------------------------------------------------------------------
\* State
\* ------------------------------------------------------------------------

VARIABLES
    orders,     \* FixEmulatorServer.orders: ClOrdID -> order dictionary (its index in recs)
    recs,       \* the order dictionaries ever created, in creation order
    outSeq,     \* self.outSeq
    clock,      \* datetime.utcnow() in epoch milliseconds (counted from the start)
    th,         \* per connection: the HandleClient thread (pc and its local variables)
    wire,       \* per connection: its socket, the last tag 34 and the number of messages written to it
    emitted,    \* the message the last step wrote to a socket, if it wrote one
    nIn,        \* inbound messages read so far
    acked,      \* the order dictionaries whose NewOrderSingle ack has been written to a socket
    alphabet,   \* the messages the clients may send
    config,     \* sessionConfig and the behaviors of the scenario engine
    preemptive, \* whether a thread may run while another is inside a message handler
    codec,      \* messageUtils on its own: a field map, the frame built from it, the frame parsed
    cert,       \* CertificationValidator: rawLines, parsedMessages, results
    reader      \* the read loop of one HandleClient on bytes: stream, buffer, dispatched dicts

\* What lives outside the server: the server's steps leave it alone.
offline == <<codec, cert, reader>>

\* The server.
online == <<orders, recs, outSeq, clock, th, wire, emitted, nIn, acked, alphabet, config,
            preemptive>>

vars == <<orders, recs, outSeq, clock, th, wire, emitted, nIn, acked, alphabet, config,
          preemptive, offline>>

Idle == [pc |-> "read", msg |-> NoMsg, ord |-> 0, steps |-> <<>>, sobj |-> ""]
\* An exception left HandleClient: the thread is gone, its socket was not closed.
Crashed == [pc |-> "crashed", msg |-> NoMsg, ord |-> 0, steps |-> <<>>, sobj |-> ""]
\* HandleClient returned after closing its socket.
Returned == [pc |-> "done", msg |-> NoMsg, ord |-> 0, steps |-> <<>>, sobj |-> ""]

ServerInit(msgs, cfg, pre) ==
    /\ orders = <<>>
    /\ recs = <<>>
    /\ outSeq = 1
    /\ clock = 0
    /\ th = [c \in Conns |-> Idle]
    /\ wire = [c \in Conns |-> [open |-> TRUE, lastSeq |-> 0, nSent |-> 0]]
    /\ emitted = NoEmit
    /\ nIn = 0
    /\ acked = {}
    /\ alphabet = msgs
    /\ config = cfg
    /\ preemptive = pre

InitWith(msgs, cfg, pre) ==
    ServerInit(msgs, cfg, pre) /\ codec = AtRest.codec /\ cert = AtRest.cert
                               /\ reader = AtRest.reader

\* ------------------------------------------------------------------------
\* Helpers of HandleClient
\* ------------------------------------------------------------------------

\* fixFields.get("34", "0")
Get34(m) == IF m.t34 = "" THEN "0" ELSE m.t34

\* str(int(fixFields.get("34", "0")) + 1), when int() does not raise
Reply34(m) == IntLit[Get34(m)] + 1

\* [tag for tag in requiredTags if not fixFields.get(tag)][0], "" if the list is empty
RECURSIVE FirstMissing(_, _, _)
FirstMissing(m, tags, i) ==
    IF i > Len(tags) THEN ""
    ELSE IF Tag(m, tags[i]) = "" THEN tags[i]
    ELSE FirstMissing(m, tags, i + 1)

DRequired == <<"11", "54", "38", "55", "40">>
FRequired == <<"11", "41", "55", "54">>
GRequired == <<"11", "41", "55", "54", "38", "40">>

\* try: float(x); if <= 0: raise ValueError()  -- TRUE when nothing is raised
PositiveNumber(x) == FloatParses(x) /\ ~FLe0(FloatLit[x])

\* price = fixFields.get("44", "0") of D; price = fixFields.get("44") of G (None)
DPrice(m) == IF m.t44 = "" THEN "0" ELSE m.t44
GPrice(m) == IF m.t44 = "" THEN "None" ELSE m.t44

\* rejectFields of a session reject (35=3) and of a business reject (35=8, 150=8, 39=8)
SessionReject(tag, reason) == OutMsg("sreject", "3", 0, "", "", "", "", 0, tag, reason, 0)
BusinessReject(id11, id41) == OutMsg("breject", "8", 0, "8", "8", id11, id41, 0, "", "", 0)

\* The session-level checks of a NewOrderSingle, in the order of the code:
\* the reject to send, or NoOut when all pass.
DSessionCheck(m) ==
    LET missing == FirstMissing(m, DRequired, 1)
    IN  IF missing # "" THEN SessionReject(missing, "1")
        ELSE IF ~PositiveNumber(m.t38) THEN SessionReject("38", "5")
        ELSE IF m.t40 \notin {"1", "2"} THEN SessionReject("40", "2")
        ELSE IF m.t40 = "2" /\ ~PositiveNumber(DPrice(m)) THEN SessionReject("44", "5")
        ELSE NoOut

\* if clOrdId in self.orders
DDuplicate(m, store) == m.t11 \in DOMAIN store

\* The dictionary stored by an accepted NewOrderSingle.
NewOrder(m, now, c) ==
    [orderId |-> now, symbol |-> m.t55, side |-> m.t54, qty |-> m.t38,
     price |-> DPrice(m), ordType |-> m.t40, status |-> "NEW",
     clOrdID |-> m.t11, currentClOrdId |-> m.t11, lastClOrdId |-> m.t11,
     history |-> <<m.t11>>, clientSocket |-> c,
     cumQty |-> Flt(0), leavesQty |-> IF m.t38 # "" THEN FloatLit[m.t38] ELSE Flt(0)]

\* The order state the F handler writes before it appends to the history.
CancelUpdate(order, newClOrdId) ==
    [order EXCEPT !.status = "CANCELED", !.lastClOrdId = newClOrdId,
                  !.currentClOrdId = newClOrdId]

\* The order state the G handler writes before it appends to the history.
ReplaceUpdate(order, m) ==
    [order EXCEPT !.qty = m.t38, !.price = GPrice(m), !.ordType = m.t40,
                  !.side = m.t54, !.symbol = m.t55,
                  !.currentClOrdId = m.t11, !.lastClOrdId = m.t11]

\* order["history"].append(newClOrdId)
HistoryAppend(order, newClOrdId) ==
    [order EXCEPT !.history = Append(@, newClOrdId)]

\* self.orders.pop(oldKey)
StorePop(store, key) == [k \in DOMAIN store \ {key} |-> store[k]]

\* self.orders[key] = order
StorePut(store, key, rid) == (key :> rid) @@ store

\* The thread after the ack of an accepted D or G: the behavior is chosen and
\* runBehavior starts (it raises when the behavior is not in behaviors.yaml).
StartScenario(clOrdId, symbol) ==
    LET name == chooseBehavior(config, symbol)
    IN  IF name \notin DOMAIN config.behaviors THEN Crashed
        ELSE IF config.behaviors[name] = <<>> THEN Idle
        ELSE [pc |-> "scen", msg |-> NoMsg, ord |-> 0,
              steps |-> config.behaviors[name], sobj |-> clOrdId]

\* ------------------------------------------------------------------------
\* _sendScenarioExec: the report of one scenario action on an order
\* ------------------------------------------------------------------------

OrigQty(order) == IF FloatParses(order.qty) THEN FloatLit[order.qty] ELSE Flt(0)

StatusName(ordStatus, old) ==
    CASE ordStatus = "0" -> "NEW"
      [] ordStatus = "1" -> "PARTIALLY_FILLED"
      [] ordStatus = "2" -> "FILLED"
      [] ordStatus = "4" -> "CANCELED"
      [] ordStatus = "5" -> "REPLACED"
      [] ordStatus = "8" -> "REJECTED"
      [] OTHER -> old

\* A cancel that gives up the open quantity: leavesQty becomes 0.
ScenarioExecCancelClears(order, action) ==
    LET cum == order.cumQty
        leaves == order.leavesQty
        fillQty == IF FGt0(leaves) THEN FQuarter(leaves) ELSE Flt(0)
    IN  CASE action = "partial" ->
               [sends |-> TRUE, execType |-> "1",
                ordStatus |-> IF FGt0(FSub(leaves, fillQty)) THEN "1" ELSE "2",
                lastQty |-> fillQty, cumQty |-> FAdd(cum, fillQty),
                leavesQty |-> FSub(leaves, fillQty)]
          [] action \in {"full_fill", "fill"} ->
               [sends |-> TRUE, execType |-> "2", ordStatus |-> "2",
                lastQty |-> IF FGt0(leaves) THEN leaves ELSE OrigQty(order),
                cumQty |-> OrigQty(order), leavesQty |-> Flt(0)]
          [] action = "cancel" ->
               [sends |-> TRUE, execType |-> "4", ordStatus |-> "4",
                lastQty |-> Flt(0), cumQty |-> cum, leavesQty |-> Flt(0)]
          [] action = "reject" ->
               [sends |-> TRUE, execType |-> "8", ordStatus |-> "8",
                lastQty |-> Flt(0), cumQty |-> cum, leavesQty |-> leaves]
          [] action = "replace_ack" ->
               [sends |-> TRUE, execType |-> "5", ordStatus |-> "5",
                lastQty |-> Flt(0), cumQty |-> cum, leavesQty |-> leaves]
          [] OTHER ->
               [sends |-> FALSE, execType |-> "", ordStatus |-> "",
                lastQty |-> Flt(0), cumQty |-> cum, leavesQty |-> leaves]

\* [sends, execType, ordStatus, lastQty, cumQty, leavesQty] of an action
ScenarioExec(order, action) ==
    LET cum == order.cumQty
        leaves == order.leavesQty
        fillQty == IF FGt0(leaves) THEN FQuarter(leaves) ELSE Flt(0)
    IN  CASE action = "partial" ->
               [sends |-> TRUE, execType |-> "1",
                ordStatus |-> IF FGt0(FSub(leaves, fillQty)) THEN "1" ELSE "2",
                lastQty |-> fillQty, cumQty |-> FAdd(cum, fillQty),
                leavesQty |-> FSub(leaves, fillQty)]
          [] action \in {"full_fill", "fill"} ->
               [sends |-> TRUE, execType |-> "2", ordStatus |-> "2",
                lastQty |-> IF FGt0(leaves) THEN leaves ELSE OrigQty(order),
                cumQty |-> OrigQty(order), leavesQty |-> Flt(0)]
          [] action = "cancel" ->
               [sends |-> TRUE, execType |-> "4", ordStatus |-> "4",
                lastQty |-> Flt(0), cumQty |-> cum, leavesQty |-> leaves]
          [] action = "reject" ->
               [sends |-> TRUE, execType |-> "8", ordStatus |-> "8",
                lastQty |-> Flt(0), cumQty |-> cum, leavesQty |-> leaves]
          [] action = "replace_ack" ->
               [sends |-> TRUE, execType |-> "5", ordStatus |-> "5",
                lastQty |-> Flt(0), cumQty |-> cum, leavesQty |-> leaves]
          [] OTHER ->
               \* "new" and every unsupported action: return before any write
               [sends |-> FALSE, execType |-> "", ordStatus |-> "",
                lastQty |-> Flt(0), cumQty |-> cum, leavesQty |-> leaves]

\* The order dictionary after the writes of _sendScenarioExec.
ScenarioWrite(order, x) ==
    [order EXCEPT !.cumQty = x.cumQty, !.leavesQty = x.leavesQty,
                  !.status = StatusName(x.ordStatus, order.status)]

\* self.outSeq += 1; return self.outSeq
NextOutboundSeq(seq) == seq + 1

\* The fields of the scenario ExecutionReport.
ScenarioReport(order, rid, x, seq) ==
    [OutMsg("scenario", "8", seq, x.execType, x.ordStatus, order.currentClOrdId,
            "", order.orderId, "", "", rid)
     EXCEPT !.t32 = x.lastQty, !.t14 = x.cumQty, !.t151 = x.leavesQty]

\* ------------------------------------------------------------------------
\* Steps of a HandleClient thread
\* ------------------------------------------------------------------------

\* clientSocket.sendall(...) wrote m to socket s.
Wrote(w, s, m) == [w EXCEPT ![s].lastSeq = m.t34, ![s].nSent = @ + 1]

\* Thread c builds a reply from the fields tpl and its message's tag 34 and
\* sends it on its own socket, then goes on as `next`; int() of a tag 34 that
\* is no number raises while the fields are built, before anything is sent.
ReplyOwn(c, tpl, next) ==
    LET m == th[c].msg
    IN  IF IntParses(Get34(m))
        THEN LET out == [tpl EXCEPT !.t34 = Reply34(m)]
             IN  /\ emitted' = [sock |-> c, by |-> c, m |-> out]
                 /\ wire' = Wrote(wire, c, out)
                 /\ th' = [th EXCEPT ![c] = next]
        ELSE /\ emitted' = NoEmit
             /\ wire' = wire
             /\ th' = [th EXCEPT ![c] = Crashed]

\* A thread is between two messages, between two scenario steps, or gone.
Quiescent == {"read", "scen", "done", "crashed"}

\* No other thread is inside the handler of a message.
Unpreempted(c) == \A d \in Conns \ {c} : th[d].pc \in Quiescent

\* Thread c may start a message or a scenario step.
Turn(c) == preemptive \/ Unpreempted(c)

\* A handler that reads its next message while its behavior is running.
RecvDuringBehavior(c) ==
    /\ th[c].pc \in {"read", "scen"}
    /\ Turn(c)
    /\ nIn < MaxMsgs
    /\ \E m \in alphabet : th' = [th EXCEPT ![c] = [Idle EXCEPT !.pc = "dispatch", !.msg = m]]
    /\ nIn' = nIn + 1
    /\ emitted' = NoEmit
    /\ UNCHANGED <<orders, recs, outSeq, clock, wire, acked, alphabet, config, preemptive, offline>>

\* data = clientSocket.recv(4096) and the splitter hand one message to the dispatch.
Recv(c) ==
    /\ th[c].pc = "read"
    /\ Turn(c)
    /\ nIn < MaxMsgs
    /\ \E m \in alphabet : th' = [th EXCEPT ![c].pc = "dispatch", ![c].msg = m]
    /\ nIn' = nIn + 1
    /\ emitted' = NoEmit
    /\ UNCHANGED <<orders, recs, outSeq, clock, wire, acked, alphabet, config, preemptive, offline>>

\* recv returns no data: break, clientSocket.close().
Disconnect(c) ==
    /\ th[c].pc = "read"
    /\ Turn(c)
    /\ th' = [th EXCEPT ![c] = Returned]
    /\ wire' = [wire EXCEPT ![c].open = FALSE]
    /\ emitted' = NoEmit
    /\ UNCHANGED <<orders, recs, outSeq, clock, nIn, acked, alphabet, config, preemptive, offline>>

\* MsgType A, 0, 5 and the unsupported ones.
HandleSession(c) ==
    LET m == th[c].msg
    IN  /\ th[c].pc = "dispatch"
        /\ m.t35 \notin {"D", "F", "G"}
        /\ CASE m.t35 = "A" ->
                  LET out == OutMsg("logon", "A", 1, "", "", "", "", 0, "", "", 0)
                  IN  /\ emitted' = [sock |-> c, by |-> c, m |-> out]
                      /\ wire' = Wrote(wire, c, out)
                      /\ th' = [th EXCEPT ![c] = Idle]
             [] m.t35 = "0" ->
                  ReplyOwn(c, OutMsg("heartbeat", "0", 0, "", "", "", "", 0, "", "", 0), Idle)
             [] m.t35 = "5" ->
                  IF IntParses(Get34(m))
                  THEN LET out == OutMsg("logout", "5", Reply34(m), "", "", "", "", 0, "", "", 0)
                       IN  /\ emitted' = [sock |-> c, by |-> c, m |-> out]
                           /\ wire' = [Wrote(wire, c, out) EXCEPT ![c].open = FALSE]
                           /\ th' = [th EXCEPT ![c] = Returned]
                  ELSE /\ emitted' = NoEmit
                       /\ wire' = wire
                       /\ th' = [th EXCEPT ![c] = Crashed]
             [] OTHER ->
                  /\ emitted' = NoEmit
                  /\ wire' = wire
                  /\ th' = [th EXCEPT ![c] = Idle]
        /\ UNCHANGED <<orders, recs, outSeq, clock, nIn, acked, alphabet, config, preemptive, offline>>

\* NewOrderSingle: the validation ladder up to the duplicate check.
HandleD(c) ==
    LET m == th[c].msg
        rej == DSessionCheck(m)
    IN  /\ th[c].pc = "dispatch"
        /\ m.t35 = "D"
        /\ IF rej # NoOut THEN ReplyOwn(c, rej, Idle)
           ELSE IF DDuplicate(m, orders) THEN ReplyOwn(c, BusinessReject(m.t11, ""), Idle)
           ELSE /\ th' = [th EXCEPT ![c].pc = "D_insert"]
                /\ emitted' = NoEmit
                /\ wire' = wire
        /\ UNCHANGED <<orders, recs, outSeq, clock, nIn, acked, alphabet, config, preemptive, offline>>

\* The milliseconds in which the next order may be stored: that of the last
\* order stored, or a later one.
Now(now, rs) ==
    IF rs # <<>> /\ rs[Len(rs)].orderId = now THEN {now, now + 1} ELSE {now}

\* self.orders[clOrdId] = {...}; orderId is "OR" + the current millisecond,
\* which may or may not have advanced since the last order.
DInsert(c) ==
    LET m == th[c].msg
        rid == Len(recs) + 1
    IN  /\ th[c].pc = "D_insert"
        /\ \E now \in Now(clock, recs) :
             /\ clock' = now
             /\ recs' = Append(recs, NewOrder(m, now, c))
        /\ orders' = StorePut(orders, m.t11, rid)
        /\ th' = [th EXCEPT ![c].pc = "D_ack", ![c].ord = rid]
        /\ emitted' = NoEmit
        /\ UNCHANGED <<outSeq, wire, nIn, acked, alphabet, config, preemptive, offline>>

\* ackFields of the new order, sendall, then the scenario engine.
DAck(c) ==
    LET m == th[c].msg
        rid == th[c].ord
    IN  /\ th[c].pc = "D_ack"
        /\ IF IntParses(Get34(m))
           THEN LET out == OutMsg("ack_new", "8", Reply34(m), "0", "0", m.t11, "",
                                  recs[rid].orderId, "", "", rid)
                IN  /\ emitted' = [sock |-> c, by |-> c, m |-> out]
                    /\ wire' = Wrote(wire, c, out)
                    /\ acked' = acked \cup {rid}
                    /\ th' = [th EXCEPT ![c] = StartScenario(m.t11, m.t55)]
           ELSE /\ emitted' = NoEmit
                /\ wire' = wire
                /\ acked' = acked
                /\ th' = [th EXCEPT ![c] = Crashed]
        /\ UNCHANGED <<orders, recs, outSeq, clock, nIn, alphabet, config, preemptive, offline>>

\* OrderCancelRequest: required tags, then the ClOrdID reuse check.
HandleF(c) ==
    LET m == th[c].msg
        missing == FirstMissing(m, FRequired, 1)
    IN  /\ th[c].pc = "dispatch"
        /\ m.t35 = "F"
        /\ IF missing # "" THEN ReplyOwn(c, SessionReject(missing, "1"), Idle)
           ELSE IF m.t11 \in DOMAIN orders THEN ReplyOwn(c, BusinessReject(m.t11, m.t41), Idle)
           ELSE /\ th' = [th EXCEPT ![c].pc = "F_lookup"]
                /\ emitted' = NoEmit
                /\ wire' = wire
        /\ UNCHANGED <<orders, recs, outSeq, clock, nIn, acked, alphabet, config, preemptive, offline>>

\* order = self.orders.get(origClOrdId), then the already-canceled check.
FLookup(c) ==
    LET m == th[c].msg
    IN  /\ th[c].pc = "F_lookup"
        /\ IF m.t41 \notin DOMAIN orders THEN ReplyOwn(c, BusinessReject(m.t11, m.t41), Idle)
           ELSE IF recs[orders[m.t41]].status = "CANCELED"
                THEN ReplyOwn(c, BusinessReject(m.t11, m.t41), Idle)
           ELSE /\ th' = [th EXCEPT ![c].pc = "F_update", ![c].ord = orders[m.t41]]
                /\ emitted' = NoEmit
                /\ wire' = wire
        /\ UNCHANGED <<orders, recs, outSeq, clock, nIn, acked, alphabet, config, preemptive, offline>>

\* order["status"], order["lastClOrdId"], order["currentClOrdId"]
FUpdate(c) ==
    LET m == th[c].msg
        rid == th[c].ord
    IN  /\ th[c].pc = "F_update"
        /\ recs' = [recs EXCEPT ![rid] = CancelUpdate(@, m.t11)]
        /\ th' = [th EXCEPT ![c].pc = "F_append"]
        /\ emitted' = NoEmit
        /\ UNCHANGED <<orders, outSeq, clock, wire, nIn, acked, alphabet, config, preemptive, offline>>

FAppend(c) ==
    LET m == th[c].msg
        rid == th[c].ord
    IN  /\ th[c].pc = "F_append"
        /\ recs' = [recs EXCEPT ![rid] = HistoryAppend(@, m.t11)]
        /\ th' = [th EXCEPT ![c].pc = "F_ack"]
        /\ emitted' = NoEmit
        /\ UNCHANGED <<orders, outSeq, clock, wire, nIn, acked, alphabet, config, preemptive, offline>>

\* The cancel ack (35=8, 150=4, 39=4).
FAck(c) ==
    LET m == th[c].msg
        rid == th[c].ord
    IN  /\ th[c].pc = "F_ack"
        /\ ReplyOwn(c, OutMsg("ack_cancel", "8", 0, "4", "4", m.t11, m.t41,
                              recs[rid].orderId, "", "", rid), Idle)
        /\ UNCHANGED <<orders, recs, outSeq, clock, nIn, acked, alphabet, config, preemptive, offline>>

\* OrderCancelReplaceRequest: required tags, then the ClOrdID reuse check.
HandleG(c) ==
    LET m == th[c].msg
        missing == FirstMissing(m, GRequired, 1)
    IN  /\ th[c].pc = "dispatch"
        /\ m.t35 = "G"
        /\ IF missing # "" THEN ReplyOwn(c, SessionReject(missing, "1"), Idle)
           ELSE IF m.t11 \in DOMAIN orders THEN ReplyOwn(c, BusinessReject(m.t11, m.t41), Idle)
           ELSE /\ th' = [th EXCEPT ![c].pc = "G_lookup"]
                /\ emitted' = NoEmit
                /\ wire' = wire
        /\ UNCHANGED <<orders, recs, outSeq, clock, nIn, acked, alphabet, config, preemptive, offline>>

\* A replace that writes the new quantity and price into the order before
\* it has validated them.
GLookupApplyFirst(c) ==
    LET m == th[c].msg
    IN  /\ th[c].pc = "G_lookup"
        /\ IF m.t41 \notin DOMAIN orders
           THEN ReplyOwn(c, BusinessReject(m.t11, m.t41), Idle) /\ recs' = recs
           ELSE /\ recs' = [recs EXCEPT ![orders[m.t41]] = ReplaceUpdate(@, m)]
                /\ IF ~PositiveNumber(m.t38) THEN ReplyOwn(c, SessionReject("38", "5"), Idle)
                   ELSE IF m.t40 = "2" /\ ~PositiveNumber(GPrice(m))
                        THEN ReplyOwn(c, SessionReject("44", "5"), Idle)
                   ELSE /\ th' = [th EXCEPT ![c].pc = "G_append", ![c].ord = orders[m.t41]]
                        /\ emitted' = NoEmit
                        /\ wire' = wire
        /\ UNCHANGED <<orders, outSeq, clock, nIn, acked, alphabet, config, preemptive, offline>>

\* order = self.orders.get(origClOrdId), then the OrderQty and Price checks.
GLookup(c) ==
    LET m == th[c].msg
    IN  /\ th[c].pc = "G_lookup"
        /\ IF m.t41 \notin DOMAIN orders THEN ReplyOwn(c, BusinessReject(m.t11, m.t41), Idle)
           ELSE IF ~PositiveNumber(m.t38) THEN ReplyOwn(c, SessionReject("38", "5"), Idle)
           ELSE IF m.t40 = "2" /\ ~PositiveNumber(GPrice(m))
                THEN ReplyOwn(c, SessionReject("44", "5"), Idle)
           ELSE /\ th' = [th EXCEPT ![c].pc = "G_apply", ![c].ord = orders[m.t41]]
                /\ emitted' = NoEmit
                /\ wire' = wire
        /\ UNCHANGED <<orders, recs, outSeq, clock, nIn, acked, alphabet, config, preemptive, offline>>

\* order["qty"] .. order["symbol"], order["currentClOrdId"], order["lastClOrdId"]
GApply(c) ==
    LET m == th[c].msg
        rid == th[c].ord
    IN  /\ th[c].pc = "G_apply"
        /\ recs' = [recs EXCEPT ![rid] = ReplaceUpdate(@, m)]
        /\ th' = [th EXCEPT ![c].pc = "G_append"]
        /\ emitted' = NoEmit
        /\ UNCHANGED <<orders, outSeq, clock, wire, nIn, acked, alphabet, config, preemptive, offline>>

GAppend(c) ==
    LET m == th[c].msg
        rid == th[c].ord
    IN  /\ th[c].pc = "G_append"
        /\ recs' = [recs EXCEPT ![rid] = HistoryAppend(@, m.t11)]
        /\ th' = [th EXCEPT ![c].pc = "G_pop"]
        /\ emitted' = NoEmit
        /\ UNCHANGED <<orders, outSeq, clock, wire, nIn, acked, alphabet, config, preemptive, offline>>

\* self.orders.pop(oldKey): KeyError when another thread removed the key.
GPop(c) ==
    LET m == th[c].msg
    IN  /\ th[c].pc = "G_pop"
        /\ IF m.t41 \in DOMAIN orders
           THEN /\ orders' = StorePop(orders, m.t41)
                /\ th' = [th EXCEPT ![c].pc = "G_insert"]
           ELSE /\ orders' = orders
                /\ th' = [th EXCEPT ![c] = Crashed]
        /\ emitted' = NoEmit
        /\ UNCHANGED <<recs, outSeq, clock, wire, nIn, acked, alphabet, config, preemptive, offline>>

\* self.orders[newClOrdId] = order
GInsert(c) ==
    LET m == th[c].msg
        rid == th[c].ord
    IN  /\ th[c].pc = "G_insert"
        /\ orders' = StorePut(orders, m.t11, rid)
        /\ th' = [th EXCEPT ![c].pc = "G_ack"]
        /\ emitted' = NoEmit
        /\ UNCHANGED <<recs, outSeq, clock, wire, nIn, acked, alphabet, config, preemptive, offline>>

\* The replace ack (35=8, 150=5, 39=5), then the scenario engine.
GAck(c) ==
    LET m == th[c].msg
        rid == th[c].ord
    IN  /\ th[c].pc = "G_ack"
        /\ ReplyOwn(c, OutMsg("ack_replace", "8", 0, "5", "5", m.t11, m.t41,
                              recs[rid].orderId, "", "", rid),
                    StartScenario(m.t11, m.t55))
        /\ UNCHANGED <<orders, recs, outSeq, clock, nIn, acked, alphabet, config, preemptive, offline>>

\* The clock after a sleep: past the millisecond of the last order stored
\* (only the order of the milliseconds in which orders are stored matters).
AfterSleep(now, rs) ==
    IF rs # <<>> /\ rs[Len(rs)].orderId = now THEN now + 1 ELSE now

\* One iteration of the loop of runBehavior: executeStep on the next step.
ScenStep(c) ==
    LET step == Head(th[c].steps)
        rest == Tail(th[c].steps)
        next == IF rest = <<>> THEN Idle ELSE [th[c] EXCEPT !.steps = rest]
        key == th[c].sobj
    IN  /\ th[c].pc = "scen"
        /\ Turn(c)
        /\ CASE step.k = "send" /\ key \in DOMAIN orders ->
                  LET rid == orders[key]
                      order == recs[rid]
                      x == ScenarioExec(order, step.a)
                      seq == NextOutboundSeq(outSeq)
                      out == ScenarioReport(order, rid, x, seq)
                  IN  IF ~x.sends
                      THEN /\ th' = [th EXCEPT ![c] = next]
                           /\ UNCHANGED <<recs, outSeq, wire, clock>>
                           /\ emitted' = NoEmit
                      ELSE /\ recs' = [recs EXCEPT ![rid] = ScenarioWrite(@, x)]
                           /\ outSeq' = seq
                           /\ clock' = clock
                           /\ IF wire[order.clientSocket].open
                              THEN /\ emitted' = [sock |-> order.clientSocket, by |-> c, m |-> out]
                                   /\ wire' = Wrote(wire, order.clientSocket, out)
                                   /\ th' = [th EXCEPT ![c] = next]
                              ELSE \* sendall on a closed socket raises OSError
                                   /\ emitted' = NoEmit
                                   /\ wire' = wire
                                   /\ th' = [th EXCEPT ![c] = Crashed]
             [] step.k = "send" /\ key \notin DOMAIN orders ->
                  \* HandleScenarioAction: no stored order, a warning only
                  /\ th' = [th EXCEPT ![c] = next]
                  /\ emitted' = NoEmit
                  /\ UNCHANGED <<recs, outSeq, wire, clock>>
             [] step.k = "delay" ->
                  \* time.sleep(ms / 1000.0)
                  /\ th' = [th EXCEPT ![c] = next]
                  /\ clock' = AfterSleep(clock, recs)
                  /\ emitted' = NoEmit
                  /\ UNCHANGED <<recs, outSeq, wire>>
             [] step.k \in {"wait_for", "end"} ->
                  \* handleWaitFor prints; "end" returns from executeStep only
                  /\ th' = [th EXCEPT ![c] = next]
                  /\ emitted' = NoEmit
                  /\ UNCHANGED <<recs, outSeq, wire, clock>>
             [] OTHER ->
                  \* raise Exception("Unsupported scenario step")
                  /\ th' = [th EXCEPT ![c] = Crashed]
                  /\ emitted' = NoEmit
                  /\ UNCHANGED <<recs, outSeq, wire, clock>>
        /\ UNCHANGED <<orders, nIn, acked, alphabet, config, preemptive, offline>>

StepOf(c) ==
    \/ Recv(c)
    \/ Disconnect(c)
    \/ HandleSession(c)
    \/ HandleD(c)
    \/ DInsert(c)
    \/ DAck(c)
    \/ HandleF(c)
    \/ FLookup(c)
    \/ FUpdate(c)
    \/ FAppend(c)
    \/ FAck(c)
    \/ HandleG(c)
    \/ GLookup(c)
    \/ GApply(c)
    \/ GAppend(c)
    \/ GPop(c)
    \/ GInsert(c)
    \/ GAck(c)
    \/ ScenStep(c)

\* ------------------------------------------------------------------------
\* Inputs and specifications
\* ------------------------------------------------------------------------

ClOrdIDs == {"c1", "c2"}

\* NewOrderSingle, limit order on AAPL.
NewOrderMsg(t34, t11, t38) == InMsg("D", t34, t11, "", "1", t38, "AAPL", "2", "150")
CancelMsg(t34, t41, t11) == InMsg("F", t34, t11, t41, "1", "", "AAPL", "", "")
ReplaceMsg(t34, t41, t11, t38) == InMsg("G", t34, t11, t41, "1", t38, "AAPL", "2", "150")

\* Well-formed orders, cancels and replaces over ClOrdIDs, with a numeric or
\* a non-numeric MsgSeqNum.
Lifecycle ==
    {NewOrderMsg(s, id, "100") : s \in {"1", "x"}, id \in ClOrdIDs}
    \cup {CancelMsg("2", o, n) : o \in ClOrdIDs, n \in ClOrdIDs}
    \cup {ReplaceMsg("2", o, n, q) : o \in ClOrdIDs, n \in ClOrdIDs, q \in {"50", "200"}}
    \cup {InMsg(t, "1", "", "", "", "", "", "", "") : t \in {"A", "0", "5", "Z"}}

\* m with tag set to v ("" removes the tag).
With(m, tag, v) ==
    CASE tag = "34" -> [m EXCEPT !.t34 = v]
      [] tag = "11" -> [m EXCEPT !.t11 = v]
      [] tag = "41" -> [m EXCEPT !.t41 = v]
      [] tag = "54" -> [m EXCEPT !.t54 = v]
      [] tag = "38" -> [m EXCEPT !.t38 = v]
      [] tag = "55" -> [m EXCEPT !.t55 = v]
      [] tag = "40" -> [m EXCEPT !.t40 = v]
      [] tag = "44" -> [m EXCEPT !.t44 = v]

DBase == NewOrderMsg("1", "c1", "100")
FBase == CancelMsg("2", "c1", "c2")
GBase == ReplaceMsg("2", "c1", "c2", "200")

\* Orders, cancels and replaces with one tag missing or invalid, some with two,
\* a market order without price and an order whose quantity is "nan".
Faulty ==
    {With(DBase, t, "") : t \in {"11", "54", "38", "55", "40", "44"}}
    \cup {With(DBase, "38", v) : v \in {"0", "abc", "nan"}}
    \cup {With(DBase, "40", "3"), With(With(DBase, "40", "1"), "44", ""),
          With(With(DBase, "54", ""), "40", ""), With(With(DBase, "38", "0"), "40", "3"),
          With(With(DBase, "40", ""), "34", "x")}
    \cup {With(FBase, t, "") : t \in {"11", "41", "55", "54"}}
    \cup {With(GBase, t, "") : t \in {"11", "41", "55", "54", "38", "40", "44"}}
    \cup {With(GBase, "38", "0"), With(With(GBase, "38", "0"), "44", "")}

Init == InitWith(Lifecycle \cup Faulty, BaseConfig, FALSE)

Next == \E c \in Conns : StepOf(c)

\* One order c1, its cancel and its replace to c2, the reuse of c1 as the new
\* ClOrdID of a cancel and of a replace, and a heartbeat.
Core ==
    {DBase, FBase, GBase, CancelMsg("2", "c1", "c1"), ReplaceMsg("2", "c1", "c1", "200"),
     InMsg("0", "1", "", "", "", "", "", "", "")}

InitRejects == InitWith(Core \cup Faulty, BaseConfig, FALSE)

SpecRejects == InitRejects /\ [][Next]_vars

Spec == Init /\ [][Next]_vars

\* Two clients work on the same order c1 at the same time.
Contended ==
    {DBase, InMsg("0", "1", "", "", "", "", "", "", "")}
    \cup {CancelMsg("2", "c1", n) : n \in {"c2", "c3"}}
    \cup {ReplaceMsg("2", "c1", n, "200") : n \in {"c2", "c3"}}

InitRace == InitWith(Contended, BaseConfig, TRUE)

SpecRace == InitRace /\ [][Next]_vars

\* The symbols of the rule-matcher example.
Symbols == {"AAPL", "GOOG", "MSFT"}

\* behaviors.yaml with the behavior of scenario 6 (b1), one with a step after
\* `end` (b2), one with a step of an unknown kind (b3) and a default (d).
RuleBehaviors ==
    ("b1" :> <<Step("send", "partial"), Step("delay", "50"),
               Step("send", "fill"), Step("end", "true")>>)
    @@ ("b2" :> <<Step("send", "partial"), Step("end", "true"), Step("send", "fill")>>)
    @@ ("b3" :> <<Step("send", "partial"), Step("pause", "50"), Step("send", "fill")>>)
    @@ ("d" :> <<Step("send", "fill")>>)

\* The rules of the example: (*AAPL*, b1), (GOOG, b2), (*, b3).
Rules ==
    {[pattern |-> <<"*", "A", "A", "P", "L", "*">>, behavior |-> "b1"],
     [pattern |-> <<"G", "O", "O", "G">>, behavior |-> "b2"],
     [pattern |-> <<"*">>, behavior |-> "b3"]}

\* Every list of at most three of them, in every order, repetitions included.
RuleLists ==
    {<<>>} \cup {<<a>> : a \in Rules} \cup {<<a, b>> : a \in Rules, b \in Rules}
    \cup {<<a, b, c>> : a \in Rules, b \in Rules, c \in Rules}

RuleConfigs ==
    {[defaultBehavior |-> "d", rules |-> rl, behaviors |-> RuleBehaviors] : rl \in RuleLists}

\* One order per symbol, a replace and a cancel of it, and a heartbeat.
RuleMsgs ==
    {With(DBase, "55", sym) : sym \in Symbols}
    \cup {With(GBase, "55", "MSFT"), FBase, InMsg("0", "1", "", "", "", "", "", "", "")}

InitRules == \E cfg \in RuleConfigs : InitWith(RuleMsgs, cfg, FALSE)

SpecRules == InitRules /\ [][Next]_vars

\* Session-level and unsupported messages, also without tag 35, each with a
\* numeric, a non-numeric and no MsgSeqNum (a frame without any field is the
\* one with neither), and one order with its cancel and its replace.
SessionMsgs ==
    {InMsg(t, n, "", "", "", "", "", "", "") : t \in {"A", "0", "5", "Z", ""}, n \in {"1", "x", ""}}
    \cup {DBase, FBase, GBase}

InitSession == InitWith(SessionMsgs, BaseConfig, FALSE)

SpecSession == InitSession /\ [][Next]_vars

\* ------------------------------------------------------------------------
\* SpecLadders: cancels and replaces that fail one check of their handler,
\* or several at once, an order with side 3 and a replace to order type 3.
\* ------------------------------------------------------------------------

LadderMsgs ==
    {DBase, With(DBase, "54", "3"), FBase, GBase, InMsg("0", "1", "", "", "", "", "", "", "")}
    \cup {With(FBase, t, "") : t \in {"11", "41", "55", "54"}}
    \cup {With(GBase, t, "") : t \in {"11", "41", "55", "54", "38", "40", "44"}}
    \cup {With(GBase, "38", v) : v \in {"0", "abc", "nan"}}
    \cup {CancelMsg("2", "c1", "c1"), CancelMsg("2", "c3", "c2"), CancelMsg("2", "c3", "c1"),
          With(CancelMsg("2", "c1", "c1"), "54", ""), With(FBase, "34", "x")}
    \cup {ReplaceMsg("2", "c1", "c1", "0"), ReplaceMsg("2", "c3", "c2", "0"),
          With(With(GBase, "38", "0"), "44", ""), With(With(GBase, "40", "3"), "44", "")}

InitLadders == InitWith(LadderMsgs, BaseConfig, FALSE)

SpecLadders == InitLadders /\ [][Next]_vars

\* ------------------------------------------------------------------------
\* SpecActions: behaviors.yaml with behaviors made of the send actions new,
\* cancel, reject and replace_ack, one with an action _sendScenarioExec does
\* not know (hold) and one with a delay; the default behavior is any of
\* them.
\* ------------------------------------------------------------------------

ActionBehaviors ==
    ("n" :> <<Step("send", "partial"), Step("send", "new"), Step("send", "fill")>>)
    @@ ("c" :> <<Step("send", "partial"), Step("send", "cancel")>>)
    @@ ("r" :> <<Step("send", "reject")>>)
    @@ ("a" :> <<Step("send", "replace_ack"), Step("send", "fill")>>)
    @@ ("u" :> <<Step("send", "partial"), Step("send", "hold"), Step("send", "fill")>>)
    @@ ("p" :> <<Step("send", "partial"), Step("delay", "50"), Step("send", "fill")>>)

ActionConfigs ==
    {[defaultBehavior |-> b, rules |-> <<>>, behaviors |-> ActionBehaviors] :
        b \in DOMAIN ActionBehaviors}

ActionMsgs == {DBase, FBase, GBase, InMsg("0", "1", "", "", "", "", "", "", "")}

InitActions == \E cfg \in ActionConfigs : InitWith(ActionMsgs, cfg, FALSE)

SpecActions == InitActions /\ [][Next]_vars

\* ------------------------------------------------------------------------
\* SpecWait: behaviors.yaml with one behavior, made of send, wait_for, delay
\* and end steps.  Every HandleClient is a thread of its own, so a thread
\* that is not waiting in recv goes on running.
\* ------------------------------------------------------------------------

WaitConfig ==
    [defaultBehavior |-> "w", rules |-> <<>>,
     behaviors |-> ("w" :> <<Step("send", "partial"), Step("wait_for", "cancel"),
                             Step("delay", "50"), Step("send", "fill"),
                             Step("end", "true")>>)]

InitWait == InitWith(ActionMsgs, WaitConfig, FALSE)

\* A step of thread c other than the recv of its next message.
Running(c) == th[c].pc # "read" /\ StepOf(c)

SpecWait == InitWait /\ [][Next]_vars /\ \A c \in Conns : WF_vars(Running(c))

\* ------------------------------------------------------------------------
\* SpecCert: the validator on a log of one line.  The line carries the
\* required tags of its MsgType in order, less at most one of them, plus up
\* to MaxExtra further tags, separated by "|" or by SOH.
\* ------------------------------------------------------------------------

\* Number of tags added to the required ones.
MaxExtra == 2

\* The tags a line may carry besides the required ones.
ExtraPool == <<Dec(44), Dec(9140), Dec(20), Dec(58), Dec(48), Dec(22), Dec(95), Dec(96), Dec(999)>>

\* tag=x for every tag of the line, 35=<msgType>, joined by the delimiter.
\* MsgType "0" is one the validator has no schema for; its line carries the
\* required tags of a Logout.
LogLines ==
    LET LogLine(tags, msgType, delimiter) ==
            Join([i \in 1..Len(tags) |->
                     tags[i] \o <<61>> \o (IF tags[i] = Dec(35) THEN msgType ELSE <<120>>)],
                 <<delimiter>>)
        BaseTags(msgType) == Schema(IF msgType = Dec(0) THEN Dec(5) ELSE msgType).required
    IN  {LogLine(SelectSeq(BaseTags(t), LAMBDA tag : tag \notin drop)
                    \o SelectSeq(ExtraPool, LAMBDA tag : tag \in extra), t, delimiter) :
            t \in {<<65>>, <<68>>, Dec(8), Dec(5), Dec(0)},
            drop \in {{}} \cup {{tag} : tag \in {Dec(35), Dec(10), Dec(49), Dec(40), Dec(98)}},
            extra \in {e \in SUBSET Range(ExtraPool) : Cardinality(e) <= MaxExtra},
            delimiter \in {124, SOH}}

InitCert ==
    /\ ServerInit({}, BaseConfig, FALSE)
    /\ codec = AtRest.codec
    /\ reader = AtRest.reader
    /\ cert \in {[pc |-> "loaded", rawLines |-> <<line>>, parsedMessages |-> <<>>,
                  results |-> <<>>] : line \in LogLines}

ParseMessagesStep ==
    /\ cert.pc = "loaded"
    /\ cert' = [ParseMessages(cert.rawLines, cert) EXCEPT !.pc = "parsed"]
    /\ UNCHANGED <<online, codec, reader>>

ValidateMessagesStep ==
    /\ cert.pc = "parsed"
    /\ cert' = [ValidateMessages(cert) EXCEPT !.pc = "validated"]
    /\ UNCHANGED <<online, codec, reader>>

NextCert == ParseMessagesStep \/ ValidateMessagesStep

SpecCert == InitCert /\ [][NextCert]_vars

\* ------------------------------------------------------------------------
\* SpecLog: the validator on a log file of up to MaxLines lines, each a
\* blank line, a line without tag 35, a Logout, a Heartbeat (a MsgType
\* without schema) or a NewOrderSingle without its other required tags.
\* ------------------------------------------------------------------------

\* Number of lines of the log file.
MaxLines == 3

\* "  ", "8=x|49=x ", "8=x|9=x|35=5|49=x|56=x|34=x|52=x|10=x", "35=0|34=x"
\* and "35=D|11=x"
FileLines ==
    LET field(tag, value) == tag \o <<61>> \o value
        x == <<120>>
    IN  {<<32, 32>>,
         Join(<<field(Dec(8), x), field(Dec(49), x)>>, <<124>>) \o <<32>>,
         Join([i \in 1..Len(Schema(Dec(5)).required) |->
                  field(Schema(Dec(5)).required[i],
                        IF Schema(Dec(5)).required[i] = Dec(35) THEN Dec(5) ELSE x)], <<124>>),
         Join(<<field(Dec(35), Dec(0)), field(Dec(34), x)>>, <<124>>),
         Join(<<field(Dec(35), <<68>>), field(Dec(11), x)>>, <<124>>)}

InitLog ==
    /\ ServerInit({}, BaseConfig, FALSE)
    /\ codec = AtRest.codec
    /\ reader = AtRest.reader
    /\ cert \in {[pc |-> "file", file |-> f, rawLines |-> <<>>, parsedMessages |-> <<>>,
                  results |-> <<>>] :
                    f \in UNION {[1..n -> FileLines] : n \in 0..MaxLines}}

LoadLogStep ==
    /\ cert.pc = "file"
    /\ cert' = [cert EXCEPT !.pc = "loaded", !.rawLines = LoadLog(cert.file)]
    /\ UNCHANGED <<online, codec, reader>>

NextLog == LoadLogStep \/ ParseMessagesStep \/ ValidateMessagesStep

SpecLog == InitLog /\ [][NextLog]_vars

\* ------------------------------------------------------------------------
\* SpecFraming: a client sends up to MaxFrames well-formed frames (built by
\* BuildFixMessage) and then shuts down; every recv returns some non-empty
\* prefix of the bytes not yet read, and the bytes arrive in at most
\* MaxReads reads.
\* ------------------------------------------------------------------------

\* Number of frames the client sends.
MaxFrames == 2

\* Number of reads that return data.
MaxReads == 3

\* Heartbeat 35=0 34=1, Logon 35=A 34=1, NewOrderSingle 35=D 11=c and
\* NewOrderSingle 35=D 11=<e with an acute accent>
ClientFrames ==
    {BuildFixMessage(<<[tag |-> Dec(35), value |-> Text(<<48>>)],
                       [tag |-> Dec(34), value |-> Text(<<49>>)]>>),
     BuildFixMessage(<<[tag |-> Dec(35), value |-> Text(<<65>>)],
                       [tag |-> Dec(34), value |-> Text(<<49>>)]>>),
     BuildFixMessage(<<[tag |-> Dec(35), value |-> Text(<<68>>)],
                       [tag |-> Dec(11), value |-> Text(<<99>>)]>>),
     BuildFixMessage(<<[tag |-> Dec(35), value |-> Text(<<68>>)],
                       [tag |-> Dec(11), value |-> Text(<<233>>)]>>)}

InitFraming ==
    /\ ServerInit({}, BaseConfig, FALSE)
    /\ codec = AtRest.codec
    /\ cert = AtRest.cert
    /\ reader \in {[pc |-> "recv", frames |-> fr, stream |-> Encode(Join(fr, <<>>)),
                    nReads |-> 0, buffer |-> <<>>, dispatched |-> <<>>] :
                     fr \in UNION {[1..n -> ClientFrames] : n \in 1..MaxFrames}}

\* recv returns k bytes.  If they decode, the buffer is drained before the
\* next recv; if they do not, UnicodeDecodeError ends the thread.
ReadStep ==
    /\ reader.pc = "recv"
    /\ \E k \in 1..Len(reader.stream) :
          LET data == SubSeq(reader.stream, 1, k)
              text == Decode(data)
              d == Drain(reader.buffer \o text.s, reader.dispatched)
          IN  /\ reader.nReads + 1 = MaxReads => k = Len(reader.stream)
              /\ reader' = IF text.ok
                           THEN [reader EXCEPT !.stream = SubSeq(@, k + 1, Len(@)),
                                               !.nReads = @ + 1,
                                               !.buffer = d.buffer,
                                               !.dispatched = d.dispatched]
                           ELSE [reader EXCEPT !.stream = SubSeq(@, k + 1, Len(@)),
                                               !.nReads = @ + 1,
                                               !.pc = "crashed"]
    /\ UNCHANGED <<online, codec, cert>>

\* recv returns b"": the loop ends.
EofStep ==
    /\ reader.pc = "recv"
    /\ reader.stream = <<>>
    /\ reader' = [reader EXCEPT !.pc = "done"]
    /\ UNCHANGED <<online, codec, cert>>

NextFraming == ReadStep \/ EofStep

SpecFraming == InitFraming /\ [][NextFraming]_vars

\* ------------------------------------------------------------------------
\* SpecCodec: BuildFixMessage and ParseFixMessage on their own.  The field
\* maps are the kind the server builds: tags other than 8, 9 and 10, values
\* that came out of ParseFixMessage (so no SOH; "=" and non-ASCII text are
\* possible), None and int.
\* ------------------------------------------------------------------------

\* Tags "35", "44", "34", "11"; values "8", "", "a=b", "e" with an acute
\* accent (U+00E9), None and the int 2.
FieldMaps ==
    LET tags == {Dec(35), Dec(44), Dec(34), Dec(11)}
        values == {Text(<<56>>), Text(<<>>), Text(<<97, 61, 98>>), Text(<<233>>),
                   [k |-> "none", s |-> <<>>, n |-> 0], [k |-> "int", s |-> <<>>, n |-> 2]}
        items == [tag : tags, value : values]
    IN  {f \in UNION {[1..n -> items] : n \in 0..MaxFields} :
            \A i, j \in 1..Len(f) : f[i].tag = f[j].tag => i = j}

InitCodec ==
    /\ ServerInit({}, BaseConfig, FALSE)
    /\ cert = AtRest.cert
    /\ reader = AtRest.reader
    /\ codec \in {[pc |-> "input", fields |-> f, fullMessage |-> <<>>, parsed |-> <<>>] :
                    f \in FieldMaps}

BuildStep ==
    /\ codec.pc = "input"
    /\ codec' = [codec EXCEPT !.pc = "built", !.fullMessage = BuildFixMessage(codec.fields)]
    /\ UNCHANGED <<online, cert, reader>>

ParseStep ==
    /\ codec.pc = "built"
    /\ codec' = [codec EXCEPT !.pc = "parsed", !.parsed = ParseFixMessage(codec.fullMessage)]
    /\ UNCHANGED <<online, cert, reader>>

NextCodec == BuildStep \/ ParseStep

SpecCodec == InitCodec /\ [][NextCodec]_vars

\* ------------------------------------------------------------------------
\* SpecCapture: the field map of one ExecutionReport of the emulator for an
\* accepted order (new-order ack, cancel ack, replace ack or scenario
\* report) is built into a frame, and the frame, as one line of a log, is
\* given to the validator.
\* ------------------------------------------------------------------------

\* ackFields of the D, F and G handlers and fields of _sendScenarioExec, in
\* the order of the dict.  Values that are the same text in every report
\* (ids, times, CompIDs) are "x"; the quantities of a scenario report are
\* "25.0"; tag 34 of a scenario report is the int _nextOutboundSeq returns.
ExecFields(kind, side, qty, price, seq) ==
    LET f(tag, s) == [tag |-> Dec(tag), value |-> Text(s)]
        x == <<120>>
        num == <<50, 53, 46, 48>>
    IN  CASE kind = "ack_new" ->
               <<f(35, Dec(8)), f(150, Dec(0)), f(39, Dec(0)), f(37, x), f(17, x), f(11, x),
                 f(54, side), f(38, qty), f(55, x), f(40, Dec(2)),
                 [tag |-> Dec(44), value |-> price], f(60, x), f(49, x), f(56, x),
                 f(34, Dec(seq))>>
          [] kind = "ack_cancel" ->
               <<f(35, Dec(8)), f(150, Dec(4)), f(39, Dec(4)), f(37, x), f(17, x), f(11, x),
                 f(41, x), f(54, side), f(38, qty), f(55, x), f(60, x), f(49, x), f(56, x),
                 f(34, Dec(seq))>>
          [] kind = "ack_replace" ->
               <<f(35, Dec(8)), f(150, Dec(5)), f(39, Dec(5)), f(37, x), f(17, x), f(11, x),
                 f(41, x), f(54, side), f(38, qty), f(55, x), f(40, Dec(2)),
                 [tag |-> Dec(44), value |-> price], f(60, x), f(49, x), f(56, x),
                 f(34, Dec(seq))>>
          [] OTHER ->
               <<f(35, Dec(8)), f(150, Dec(1)), f(39, Dec(1)), f(37, x), f(17, x), f(11, x),
                 f(55, x), f(54, side), f(38, qty), [tag |-> Dec(44), value |-> price],
                 f(60, x), f(32, num), [tag |-> Dec(31), value |-> price], f(14, num),
                 f(151, num), f(49, x), f(56, x),
                 [tag |-> Dec(34), value |-> [k |-> "int", s |-> <<>>, n |-> seq]]>>

\* Side 1 or 2, OrderQty 100 or 50, Price 150 or, after a replace without
\* tag 44, None.
InitCapture ==
    /\ ServerInit({}, BaseConfig, FALSE)
    /\ cert = AtRest.cert
    /\ reader = AtRest.reader
    /\ codec \in {[pc |-> "input", fields |-> ExecFields(kind, side, qty, price, seq),
                   fullMessage |-> <<>>, parsed |-> <<>>] :
                    kind \in {"ack_new", "ack_cancel", "ack_replace", "scenario"},
                    side \in {Dec(1), Dec(2)}, qty \in {Dec(100), Dec(50)},
                    price \in {Text(Dec(150)), [k |-> "none", s |-> <<>>, n |-> 0]},
                    seq \in {2, 3}}

\* The frame becomes the only line of the log file.
CaptureStep ==
    /\ codec.pc = "built"
    /\ cert.pc = "off"
    /\ cert' = [pc |-> "file", file |-> <<codec.fullMessage>>, rawLines |-> <<>>,
                parsedMessages |-> <<>>, results |-> <<>>]
    /\ UNCHANGED <<online, codec, reader>>

NextCapture ==
    BuildStep \/ CaptureStep \/ LoadLogStep \/ ParseMessagesStep \/ ValidateMessagesStep

SpecCapture == InitCapture /\ [][NextCapture]_vars


\* ------------------------------------------------------------------------
\* Properties
\* ------------------------------------------------------------------------

\* Every thread is between two messages, between two scenario steps, or gone.
AllQuiescent == \A c \in Conns : th[c].pc \in Quiescent

\* Thread c takes this step.
Steps(c) == th'[c] # th[c]

\* The last element of a non-empty sequence.
Last(q) == q[Len(q)]

\* Every ClOrdID an order ever bore: tag 11 of an accepted D, F or G.
EverAccepted == UNION {{recs[r].history[i] : i \in 1..Len(recs[r].history)} : r \in 1..Len(recs)}

\* C1: on every connection the tag-34 values of the messages the server sends
\* form a strictly increasing sequence whose first element is 1.
C1_OutboundSeqStrictlyIncreasingFromOne ==
    [][emitted' # NoEmit =>
         IF wire[emitted'.sock].nSent = 0
         THEN emitted'.m.t34 = 1
         ELSE emitted'.m.t34 > wire[emitted'.sock].lastSeq]_vars

\* The session-level checks (those answered with 35=3) of a D, F or G pass.
PassesSessionChecks(m) ==
    CASE m.t35 = "D" -> DSessionCheck(m) = NoOut
      [] m.t35 = "F" -> FirstMissing(m, FRequired, 1) = ""
      [] m.t35 = "G" -> /\ FirstMissing(m, GRequired, 1) = ""
                        /\ PositiveNumber(m.t38)
                        /\ (m.t40 = "2" => PositiveNumber(GPrice(m)))
      [] OTHER -> FALSE

IsBusinessReject(out) == out.t35 = "8" /\ out.t150 = "8" /\ out.t39 = "8"
IsSessionReject(out) == out.t35 = "3"

\* C2: a D, F or G (here: one with a numeric tag 34) that passes the
\* session-level checks and carries in tag 11 a ClOrdID that was ever accepted
\* is answered with a business reject and neither creates nor modifies an
\* order: its handler writes nothing and its only answer is that reject.
C2_AcceptedClOrdIDNeverReusable ==
    [][\A c \in Conns :
         (/\ Steps(c)
          /\ th[c].pc \in {"dispatch", "F_lookup", "G_lookup"}
          /\ PassesSessionChecks(th[c].msg)
          /\ IntParses(Get34(th[c].msg))
          /\ th[c].msg.t11 \in EverAccepted)
         => /\ orders' = orders
            /\ recs' = recs
            /\ \/ /\ th[c].pc = "dispatch"
                  /\ th'[c].pc \in {"F_lookup", "G_lookup"}
                  /\ emitted' = NoEmit
               \/ /\ emitted'.by = c
                  /\ IsBusinessReject(emitted'.m)
                  /\ th'[c] = Idle]_vars

\* C3: after a successful OrderCancelRequest with 41=c and 11=c' the store has
\* an entry under c' whose status is Canceled, none under c, and the history
\* of the order ends with c'.
C3_CancelRekeysTheOrder ==
    emitted.m.kind = "ack_cancel" =>
        /\ emitted.m.t11 \in DOMAIN orders
        /\ recs[orders[emitted.m.t11]].status = "CANCELED"
        /\ emitted.m.t41 \notin DOMAIN orders
        /\ Last(recs[emitted.m.rid].history) = emitted.m.t11

\* C4: between messages, every order in the store (here: every one whose
\* quantities are numbers) has cumQty + leavesQty <= origQty, with equality
\* unless its status is Canceled or Rejected.
C4_QuantitiesAddUp ==
    AllQuiescent =>
        \A k \in DOMAIN orders :
            LET o == recs[orders[k]]
                sum == FAdd(o.cumQty, o.leavesQty)
            IN  sum # NaN =>
                  /\ FLe(sum, OrigQty(o))
                  /\ (o.status \notin {"CANCELED", "REJECTED"} => FEq(sum, OrigQty(o)))

\* C5: no two distinct order records have the same currentClOrdId.
C5_CurrentClOrdIdUnique ==
    AllQuiescent =>
        \A i, j \in 1..Len(recs) :
            i # j => recs[i].currentClOrdId # recs[j].currentClOrdId

\* C6: between messages, every order record has a non-empty history whose
\* first element is the ClOrdID of the NewOrderSingle that created it and
\* whose last element is its currentClOrdId.
C6_HistoryEndsWithCurrentClOrdId ==
    AllQuiescent =>
        \A r \in 1..Len(recs) :
            /\ recs[r].history # <<>>
            /\ recs[r].history[1] = recs[r].clOrdID
            /\ Last(recs[r].history) = recs[r].currentClOrdId

\* The answer the validation ladder of a NewOrderSingle is specified to give:
\* [t35, t371, t373] of the first failing check, t35 = "" when all pass.
Verdict(t35, t371, t373) == [t35 |-> t35, t371 |-> t371, t373 |-> t373]

DLadder(m, store) ==
    LET missing == FirstMissing(m, DRequired, 1)
    IN  IF missing # "" THEN Verdict("3", missing, "1")
        ELSE IF ~(FloatParses(m.t38) /\ FGt0(FloatLit[m.t38])) THEN Verdict("3", "38", "5")
        ELSE IF m.t40 \notin {"1", "2"} THEN Verdict("3", "40", "2")
        ELSE IF m.t40 = "2" /\ ~(FloatParses(m.t44) /\ FGt0(FloatLit[m.t44]))
             THEN Verdict("3", "44", "5")
        ELSE IF m.t11 \in DOMAIN store THEN Verdict("8", "", "")
        ELSE Verdict("", "", "")

\* C7: a NewOrderSingle that fails a check is answered by exactly one
\* message, that of the first failing check in the order required tags,
\* OrderQty, OrdType, Price, duplicate ClOrdID.
C7_NewOrderLadderFirstFailingCheck ==
    [][\A c \in Conns :
         LET m == th[c].msg
             v == DLadder(m, orders)
         IN  (Steps(c) /\ th[c].pc = "dispatch" /\ m.t35 = "D" /\ v.t35 # "")
             => /\ emitted'.by = c
                /\ emitted'.sock = c
                /\ emitted'.m.t35 = v.t35
                /\ emitted'.m.t371 = v.t371
                /\ emitted'.m.t373 = v.t373
                /\ (v.t35 = "8" => IsBusinessReject(emitted'.m))
                /\ th'[c] = Idle]_vars

\* The pcs of a handler that has not yet written to the order store.
BeforeWrites == {"dispatch", "F_lookup", "G_lookup"}

\* C8: a D, F or G that is answered with a session reject or a business
\* reject leaves the order store as it was (keys and every field of every
\* record) and starts no scenario: the reject is sent by a handler that has
\* written nothing, the step that sends it writes nothing, and the thread
\* goes back to reading.
C8_RejectLeavesStoreUnchanged ==
    [][\A c \in Conns :
         /\ (Steps(c) /\ th'[c].pc \in BeforeWrites) => (orders' = orders /\ recs' = recs)
         /\ (/\ Steps(c)
             /\ emitted'.by = c
             /\ (IsSessionReject(emitted'.m) \/ IsBusinessReject(emitted'.m)))
            => /\ th[c].pc \in BeforeWrites
               /\ th[c].msg.t35 \in {"D", "F", "G"}
               /\ orders' = orders
               /\ recs' = recs
               /\ th'[c] = Idle]_vars

\* A reject has just been sent for a message while the store holds an order.
C8_Witness ==
    /\ IsSessionReject(emitted.m) \/ IsBusinessReject(emitted.m)
    /\ DOMAIN orders # {}
    /\ th[emitted.by].pc = "read"

\* C9: a NewOrderSingle that passes all checks (here: one whose quantity is a
\* number) inserts exactly one new record under its tag 11, with status New,
\* cumQty 0, leavesQty = origQty = tag 38 and history [tag 11], leaves every
\* other record unchanged, and sends exactly one ack with 35=8, 150=0, 39=0,
\* its ClOrdID in tag 11 and the orderId of the new record in tag 37.
C9_AcceptedNewOrderStoredAndAcked ==
    [][\A c \in Conns :
         LET m == th[c].msg
         IN  /\ (Steps(c) /\ th[c].pc = "D_insert" /\ FloatLit[m.t38] # NaN)
                => /\ Len(recs') = Len(recs) + 1
                   /\ SubSeq(recs', 1, Len(recs)) = recs
                   /\ DOMAIN orders' = DOMAIN orders \cup {m.t11}
                   /\ \A k \in DOMAIN orders : k # m.t11 => orders'[k] = orders[k]
                   /\ orders'[m.t11] = Len(recs')
                   /\ LET o == recs'[Len(recs')]
                      IN  /\ o.status = "NEW"
                          /\ o.cumQty = Flt(0)
                          /\ o.leavesQty = FloatLit[m.t38]
                          /\ OrigQty(o) = FloatLit[m.t38]
                          /\ o.history = <<m.t11>>
             /\ (Steps(c) /\ th[c].pc = "D_ack")
                => /\ emitted'.sock = c
                   /\ emitted'.m.t35 = "8"
                   /\ emitted'.m.t150 = "0"
                   /\ emitted'.m.t39 = "0"
                   /\ emitted'.m.t11 = m.t11
                   /\ emitted'.m.t37 = recs[th[c].ord].orderId
                   /\ recs' = recs
                   /\ orders' = orders]_vars

\* C10: no scenario-driven ExecutionReport for an order is sent before the
\* ack of the NewOrderSingle that created the order.
C10_AckBeforeScenarioReports ==
    emitted.m.kind = "scenario" => emitted.m.rid \in acked

\* C11: when a Cancel/Replace with 41=c and 11=c' has succeeded (its ack is
\* sent, no scenario step has run yet) the store has no entry under c and has
\* the same order record under c', with qty, price, ordType, side and symbol
\* equal to tags 38, 44, 40, 54, 55 of the request, status Replaced and c'
\* at the end of its history; the reply has 35=8, 150=5, 39=5.
C11_ReplaceSuccessRekeysAndMarksReplaced ==
    [][\A c \in Conns :
         LET m == th[c].msg
             rid == th[c].ord
         IN  (Steps(c) /\ th[c].pc = "G_ack" /\ emitted'.by = c)
             => /\ emitted'.m.t35 = "8" /\ emitted'.m.t150 = "5" /\ emitted'.m.t39 = "5"
                /\ m.t41 \notin DOMAIN orders'
                /\ m.t11 \in DOMAIN orders'
                /\ orders'[m.t11] = rid
                /\ recs'[rid].orderId = emitted'.m.t37
                /\ recs'[rid].qty = m.t38
                /\ recs'[rid].price = m.t44
                /\ recs'[rid].ordType = m.t40
                /\ recs'[rid].side = m.t54
                /\ recs'[rid].symbol = m.t55
                /\ Last(recs'[rid].history) = m.t11
                /\ recs'[rid].status = "REPLACED"]_vars

\* The behavior [send: partial, delay, send: fill, end].
IsPartialThenFill(steps) ==
    /\ Len(steps) = 4
    /\ steps[1] = Step("send", "partial")
    /\ steps[2].k = "delay"
    /\ steps[3] = Step("send", "fill")
    /\ steps[4].k = "end"

\* The behavior the rules bind order o to is [send: partial, delay, send: fill, end].
BoundToPartialThenFill(o) ==
    LET name == chooseBehavior(config, o.symbol)
    IN  name \in DOMAIN config.behaviors /\ IsPartialThenFill(config.behaviors[name])

\* Thread c runs the behavior that the NewOrderSingle of record r started.
RunsBehaviorOf(c, r) ==
    /\ th[c].pc = "scen"
    /\ recs[r].clientSocket = c
    /\ recs[r].clOrdID = th[c].sobj
    /\ r = Len(recs) \/ \A q \in (r + 1)..Len(recs) : recs[q].clientSocket # c

\* C12: an accepted order of quantity Q (a number) bound to the behavior
\* [send: partial, delay, send: fill, end] gets, after its ack, a partial
\* report (150=1, 39=1, lastQty = cumQty = Q/4, leavesQty = 3Q/4), then a
\* fill report (150=2, 39=2, lastQty = 3Q/4, cumQty = Q, leavesQty = 0), and
\* is stored with cumQty = Q, leavesQty = 0 and status Filled once the
\* behavior is over.
C12_PartialThenFillReports ==
    [][\A c \in Conns : \A r \in 1..Len(recs) :
         LET Q == OrigQty(recs[r])
             out == emitted'.m
         IN  (/\ Steps(c) /\ RunsBehaviorOf(c, r) /\ r \in acked
              /\ BoundToPartialThenFill(recs[r]) /\ Q # NaN)
             => /\ IsPartialThenFill(th[c].steps)
                   => /\ emitted'.by = c /\ out.rid = r
                      /\ out.t150 = "1" /\ out.t39 = "1"
                      /\ FEq(out.t32, FQuarter(Q))
                      /\ FEq(out.t14, FQuarter(Q))
                      /\ FEq(out.t151, FSub(Q, FQuarter(Q)))
                /\ (Len(th[c].steps) = 2 /\ th[c].steps[1] = Step("send", "fill"))
                   => /\ emitted'.by = c /\ out.rid = r
                      /\ out.t150 = "2" /\ out.t39 = "2"
                      /\ FEq(out.t32, FSub(Q, FQuarter(Q)))
                      /\ FEq(out.t14, Q)
                      /\ FEq(out.t151, Flt(0))
                /\ th'[c].pc # "scen"
                   => /\ recs'[r].status = "FILLED"
                      /\ FEq(recs'[r].cumQty, Q)
                      /\ FEq(recs'[r].leavesQty, Flt(0))]_vars

\* The kinds of step executeStep knows.
StepKinds == {"send", "delay", "wait_for", "end"}

\* C13: when runBehavior reaches an `end` step the behavior is over: no step
\* that follows `end` in the list is executed, the thread goes back to
\* reading, and the `end` step itself sends nothing and changes no order.
C13_EndStepEndsTheBehavior ==
    [][\A c \in Conns :
         (Steps(c) /\ th[c].pc = "scen" /\ Head(th[c].steps).k = "end")
         => /\ th'[c] = Idle
            /\ emitted' = NoEmit
            /\ recs' = recs]_vars

\* C14: a step whose key is none of send, delay, wait_for, end fails the
\* behavior without an ExecutionReport for it, and the session stays up: the
\* handler goes back to reading the inbound messages of its connection.
C14_UnknownStepKeepsSessionUp ==
    [][\A c \in Conns :
         (Steps(c) /\ th[c].pc = "scen" /\ Head(th[c].steps).k \notin StepKinds)
         => /\ emitted' = NoEmit
            /\ recs' = recs
            /\ th'[c] = Idle
            /\ wire'[c].open]_vars

\* The rule list of the example.
ExampleRules ==
    <<[pattern |-> <<"*", "A", "A", "P", "L", "*">>, behavior |-> "b1"],
      [pattern |-> <<"G", "O", "O", "G">>, behavior |-> "b2"],
      [pattern |-> <<"*">>, behavior |-> "b3"]>>

\* Rule i is the first rule, in declared order, whose pattern matches sym.
IsFirstMatch(i, sym) ==
    /\ matcher(sym, config.rules[i].pattern)
    /\ \A j \in 1..(i - 1) : ~matcher(sym, config.rules[j].pattern)

\* Thread t has just started to run the behavior called name.
Started(t, name) == t.pc = "scen" /\ t.steps = config.behaviors[name]

C16_LogoutEndsTheSession ==
    [][\A c \in Conns :
         /\ (Steps(c) /\ th[c].pc = "dispatch" /\ th[c].msg.t35 = "5")
            => /\ emitted'.by = c /\ emitted'.sock = c
               /\ emitted'.m.t35 = "5"
               /\ wire'[c].nSent = wire[c].nSent + 1
               /\ ~wire'[c].open
               /\ th'[c] = Returned
               /\ orders' = orders /\ recs' = recs
         /\ th[c].pc = "done" => th'[c] = th[c]
         /\ (emitted' # NoEmit /\ emitted'.sock = c) => wire[c].open]_vars

\* C17: whenever a session handler has stopped, by disconnect, by Logout or
\* by an exception, its client socket has been closed.
C17_StoppedHandlerHasClosedItsSocket ==
    \A c \in Conns : th[c].pc \in {"done", "crashed"} => ~wire[c].open

\* A frame without tag 35, or whose tag 34 is absent or not a number.
BadFrame(m) == m.t35 = "" \/ ~IntParses(m.t34)

\* C18: no inbound frame without tag 35, or with a tag 34 that is absent or
\* not a number, terminates the session handler (a Logout aside): the handler
\* of such a frame never stops.
C18_BadFrameNeverEndsTheHandler ==
    [][\A c \in Conns :
         (/\ Steps(c)
          /\ th[c].pc \notin Quiescent
          /\ BadFrame(th[c].msg)
          /\ th[c].msg.t35 # "5")
         => th'[c].pc \notin {"crashed", "done"}]_vars

\* C19: when two connections submit a valid NewOrderSingle with the same
\* ClOrdID at the same time, only one is accepted: a handler never stores an
\* order under a ClOrdID that is in the store, so the accepted record is never
\* overwritten (the other handler must have sent the duplicate reject).
C19_ConcurrentDuplicateNeverOverwrites ==
    [][\A c \in Conns :
         (Steps(c) /\ th[c].pc = "D_insert")
         => /\ th[c].msg.t11 \notin DOMAIN orders
            /\ \A r \in 1..Len(recs) : \E k \in DOMAIN orders' : orders'[k] = r]_vars

\* The handler has written currentClOrdId but has not finished the re-key:
\* history, the old key or the new key are still to be written.
MidRekey == {"F_append", "G_append", "G_pop", "G_insert"}

\* The positions from which the next step of a handler reads or writes the
\* order store or an order in it.
TouchesStore ==
    {"dispatch", "D_insert", "F_lookup", "F_update", "F_append", "G_lookup", "G_apply",
     "G_append", "G_pop", "G_insert", "scen"}

\* C20: the re-key of a Cancel or Cancel/Replace is atomic with respect to
\* the other handlers: while one handler is in the middle of it no other
\* handler reads or writes the store, and self.orders.pop never fails with
\* an unhandled KeyError because another handler has replaced the same order.
C20_RekeyIsAtomic ==
    [][\A c \in Conns :
         /\ \A d \in Conns \ {c} :
              (th[c].pc \in MidRekey /\ Steps(d)) => th[d].pc \notin TouchesStore
         /\ (Steps(c) /\ th[c].pc = "G_pop") => th'[c].pc # "crashed"]_vars

\* The items of a dict the dict d contains, compared as Python compares
\* them: a str is equal to a str of the same code points and to nothing else.
HasItem(d, tag, value) == tag \in DOMAIN d /\ value.k = "str" /\ d[tag] = value.s

\* C21: for any field map given to BuildFixMessage, ParseFixMessage of the
\* built frame contains every (tag, value) pair of the input, and besides
\* them only the computed tags 8, 9 and 10.
C21_ParseOfBuildContainsTheFields ==
    codec.pc = "parsed" =>
        /\ \A i \in 1..Len(codec.fields) :
              HasItem(codec.parsed, codec.fields[i].tag, codec.fields[i].value)
        /\ DOMAIN codec.parsed =
              {codec.fields[i].tag : i \in 1..Len(codec.fields)} \cup {Dec(8), Dec(9), Dec(10)}

\* The bytes of the frame on the wire, cut at its trailing "10=ddd" SOH field
\* and after the SOH that ends the "9=" field.
WireBytes == Encode(codec.fullMessage)
BeforeCheckSum == SubSeq(WireBytes, 1, Len(WireBytes) - 7)
CheckSumField == SubSeq(WireBytes, Len(WireBytes) - 6, Len(WireBytes))
AfterBeginString == SubSeq(BeforeCheckSum, 11, Len(BeforeCheckSum))
BodyLengthEnd == Find(AfterBeginString, SOH)
WireBody == SubSeq(AfterBeginString, BodyLengthEnd + 1, Len(AfterBeginString))

\* The checksum half of C22 on its own.
CheckSumIsByteSum ==
    codec.pc \in {"built", "parsed"} =>
        CheckSumField = <<49, 48, 61>> \o Pad3(Sum(BeforeCheckSum) % 256) \o <<SOH>>

\* C22: in every frame BuildFixMessage produces, tag 10 is the sum of the
\* bytes before the "10=" field modulo 256 as three zero-padded digits, and
\* tag 9 is the length of the body between the "9=" field and the "10="
\* field.
C22_CheckSumAndBodyLength ==
    codec.pc \in {"built", "parsed"} =>
        /\ CheckSumIsByteSum
        /\ SubSeq(AfterBeginString, 1, BodyLengthEnd) = <<57, 61>> \o Dec(Len(WireBody)) \o <<SOH>>

TagsOf(msg) == {msg[i].tag : i \in 1..Len(msg)}

MissingOf(msg) == Range(Schema(MsgGet(msg, Dec(35))).required) \ TagsOf(msg)

UnexpectedOf(msg) ==
    LET sc == Schema(MsgGet(msg, Dec(35)))
    IN  TagsOf(msg) \ (Range(sc.required) \cup Range(sc.optional)
                        \cup Range(customTagsByType(MsgGet(msg, Dec(35)))))

HalfPairsOf(msg) ==
    {pair \in Range(Schema(MsgGet(msg, Dec(35))).pairs) :
        (pair[1] \in TagsOf(msg)) # (pair[2] \in TagsOf(msg))}

\* The verdict of the idx-th parsed message.
VerdictOf(idx) ==
    LET r == CHOOSE r \in Range(cert.results) : r.label = <<"Line", idx>>
    IN  r.verdict

\* The verdict says exactly what is wrong with the message.
NamesTheViolations(verdict, msg) ==
    LET errs == Range(verdict.errors)
    IN  /\ verdict.label = Schema(MsgGet(msg, Dec(35))).name
        /\ verdict.mark = "Valid" <=>
              MissingOf(msg) = {} /\ UnexpectedOf(msg) = {} /\ HalfPairsOf(msg) = {}
        /\ verdict.mark = "Valid" => errs = {}
        /\ verdict.mark # "Valid" =>
              /\ verdict.mark = "invalid"
              /\ MissingOf(msg) # {} <=>
                    \E e \in errs : e.kind = "missing required tag(s)"
              /\ UnexpectedOf(msg) # {} <=>
                    \E e \in errs : e.kind = "unexpected tag(s)"
              /\ \A e \in errs :
                    CASE e.kind = "missing required tag(s)" -> Range(e.tags) = MissingOf(msg)
                      [] e.kind = "unexpected tag(s)" -> Range(e.tags) = UnexpectedOf(msg)
                      [] OTHER -> e.kind = "must both be present" /\ e.tags \in HalfPairsOf(msg)
              /\ \A pair \in HalfPairsOf(msg) :
                    \E e \in errs : e.kind = "must both be present" /\ e.tags = pair

\* C23: for a parsed message of MsgType A, 5, D or 8 the verdict is
\* "Valid <name>" exactly if no required tag is missing, every tag is in
\* required, optional or custom, and no conditional pair is half present;
\* otherwise the verdict names every kind of violation, with its tags.
C23_VerdictSaysExactlyWhatIsWrong ==
    cert.pc = "validated" =>
        \A idx \in 1..Len(cert.parsedMessages) :
            MsgGet(cert.parsedMessages[idx], Dec(35)) \in {<<65>>, Dec(5), <<68>>, Dec(8)}
                => NamesTheViolations(VerdictOf(idx), cert.parsedMessages[idx])

\* An ExecutionReport whose verdict names all three kinds of violation.
C23_Witness ==
    /\ cert.pc = "validated"
    /\ Len(cert.parsedMessages) = 1
    /\ LET msg == cert.parsedMessages[1]
       IN  /\ MsgGet(msg, Dec(35)) = Dec(8)
           /\ MissingOf(msg) # {}
           /\ UnexpectedOf(msg) # {}
           /\ HalfPairsOf(msg) # {}
           /\ Len(VerdictOf(1).errors) = 3

\* C24: the n-th message the server sends on a connection carries 34 = n,
\* whatever tag 34 the client's messages carry (the Logon reply is the first
\* and carries 1, the reply to the Heartbeat after it carries 2).
C24_NthOutboundMessageCarriesN ==
    [][emitted' # NoEmit => emitted'.m.t34 = wire[emitted'.sock].nSent + 1]_vars

\* The dicts of the client's frames, one per frame, in the order sent.
FramesSent == [i \in 1..Len(reader.frames) |-> ParseFixMessage(reader.frames[i])]

\* C25: every well-formed frame is dispatched exactly once, as its own
\* message and in arrival order, however the stream is divided into reads:
\* what has been dispatched is always a prefix of the frames sent, and it is
\* all of them once the stream has been read to its end.
C25_EachFrameDispatchedOnce ==
    /\ Len(reader.dispatched) <= Len(FramesSent)
    /\ reader.dispatched = SubSeq(FramesSent, 1, Len(reader.dispatched))
    /\ reader.pc = "done" => reader.dispatched = FramesSent

\* The answer the validation ladder of a cancel is specified to give.
FLadder(m, store, dicts) ==
    LET missing == FirstMissing(m, FRequired, 1)
    IN  IF missing # "" THEN Verdict("3", missing, "1")
        ELSE IF m.t11 \in DOMAIN store THEN Verdict("8", "", "")
        ELSE IF m.t41 \notin DOMAIN store THEN Verdict("8", "", "")
        ELSE IF dicts[store[m.t41]].status = "CANCELED" THEN Verdict("8", "", "")
        ELSE Verdict("", "", "")

\* The answer the validation ladder of a replace is specified to give.
GLadder(m, store) ==
    LET missing == FirstMissing(m, GRequired, 1)
    IN  IF missing # "" THEN Verdict("3", missing, "1")
        ELSE IF m.t11 \in DOMAIN store THEN Verdict("8", "", "")
        ELSE IF m.t41 \notin DOMAIN store THEN Verdict("8", "", "")
        ELSE IF ~(FloatParses(m.t38) /\ FGt0(FloatLit[m.t38])) THEN Verdict("3", "38", "5")
        ELSE IF m.t40 = "2" /\ ~(FloatParses(m.t44) /\ FGt0(FloatLit[m.t44]))
             THEN Verdict("3", "44", "5")
        ELSE Verdict("", "", "")

\* C26: a cancel or a replace that fails a check is answered by exactly one
\* message, that of the first failing check in the order required tags,
\* duplicate new ClOrdID, unknown original ClOrdID, then already canceled
\* (cancel) or OrderQty and Price (replace).  The handler answers from its
\* first step or, having found tags and new ClOrdID in order, from the step
\* that looks the order up.  (Messages with a numeric tag 34.)
C26_CancelReplaceLadderFirstFailingCheck ==
    [][\A c \in Conns :
         LET m == th[c].msg
             v == IF m.t35 = "F" THEN FLadder(m, orders, recs) ELSE GLadder(m, orders)
         IN  (/\ Steps(c)
              /\ th[c].pc \in {"dispatch", "F_lookup", "G_lookup"}
              /\ m.t35 \in {"F", "G"}
              /\ IntParses(Get34(m))
              /\ v.t35 # "")
             => \/ /\ emitted'.by = c
                   /\ emitted'.sock = c
                   /\ emitted'.m.t35 = v.t35
                   /\ emitted'.m.t371 = v.t371
                   /\ emitted'.m.t373 = v.t373
                   /\ (v.t35 = "8" => IsBusinessReject(emitted'.m))
                   /\ th'[c] = Idle
                \/ /\ th[c].pc = "dispatch"
                   /\ th'[c].pc \in {"F_lookup", "G_lookup"}
                   /\ emitted' = NoEmit
                   /\ orders' = orders
                   /\ recs' = recs]_vars

\* Thread c applies the scenario action a to a stored order with this step.
SendsAction(c, a) ==
    /\ Steps(c)
    /\ th[c].pc = "scen"
    /\ Head(th[c].steps) = Step("send", a)
    /\ th[c].sobj \in DOMAIN orders

C28_BehaviorRunsOnItsHandler ==
    [][\A c \in Conns :
         /\ (th[c].pc = "scen" /\ Steps(c)) =>
               /\ nIn' = nIn
               /\ \/ th'[c] = [th[c] EXCEPT !.steps = Tail(@)] /\ Tail(th[c].steps) # <<>>
                  \/ th'[c] = Idle /\ Tail(th[c].steps) = <<>>
                  \/ th'[c] = Crashed
         /\ (th'[c].pc = "scen" /\ th[c].pc # "scen") =>
               /\ th[c].pc \in {"D_ack", "G_ack"}
               /\ emitted'.by = c
               /\ emitted'.m.kind \in {"ack_new", "ack_replace"}]_vars

\* While connection A is in the middle of a behavior (the partial report is
\* out, the fill is still to come), connection B has been answered.
C28_Witness ==
    \E c \in Conns : \E d \in Conns \ {c} :
        /\ th[c].pc = "scen"
        /\ th[c].steps = <<Step("send", "fill")>>
        /\ emitted.by = d
        /\ emitted.sock = d

\* The actions _sendScenarioExec knows.
KnownActions == {"new", "partial", "fill", "full_fill", "cancel", "reject", "replace_ack"}

\* C29: a send step with an action outside new, partial, fill, full_fill,
\* cancel, reject, replace_ack aborts the scenario at that step: no report
\* for it, the order unchanged, no later step executed (the handler goes back
\* to reading), and the session stays up.
C29_UnknownActionAbortsTheScenario ==
    [][\A c \in Conns :
         (/\ Steps(c)
          /\ th[c].pc = "scen"
          /\ Head(th[c].steps).k = "send"
          /\ Head(th[c].steps).a \notin KnownActions)
         => /\ emitted' = NoEmit
            /\ recs' = recs
            /\ orders' = orders
            /\ th'[c] = Idle
            /\ wire'[c].open]_vars

\* C30: every order record of the store has side 1 or 2 and ordType 1 or 2,
\* after any sequence of accepted D and G messages.
C30_StoredSideAndOrdTypeAreValid ==
    \A k \in DOMAIN orders :
        /\ recs[orders[k]].side \in {"1", "2"}
        /\ recs[orders[k]].ordType \in {"1", "2"}

\* The pair the validator owes to a non-empty line: "Line N" with the verdict
\* of its message if the line has tag 35, the skip warning if not.
PairOwed(line, N, pair) ==
    LET msg == ParseLine(line)
    IN  IF HasTag(msg, Dec(35))
        THEN /\ pair.label = <<"Line", N>>
             /\ pair.verdict = ValidateMsgType(MsgGet(msg, Dec(35)), msg)
        ELSE pair.verdict.mark = "Message skipped"

\* C31: the results hold exactly one (label, verdict) pair per non-empty line
\* of the log, in the order of the lines, and the pair labelled "Line N" is
\* that of the N-th non-empty line, for any mix of lines with and without
\* tag 35.
C31_OnePairPerLineInLineOrder ==
    cert.pc = "validated" =>
        LET lines == LoadLog(cert.file)
        IN  /\ Len(cert.results) = Len(lines)
            /\ \A N \in 1..Len(lines) : PairOwed(lines[N], N, cert.results[N])

\* C32: the outbound sequence counter is per connection: the tag 34 the next
\* scenario report on connection c will carry is changed only by c's own
\* steps and by messages written to c's socket, never by a step another
\* connection takes for its own orders and reports.
C32_OutboundSeqIsPerConnection ==
    [][\A c \in Conns :
          (~Steps(c) /\ emitted'.sock # c) =>
              NextOutboundSeq(outSeq') = NextOutboundSeq(outSeq)]_vars

\* A wait_for step is one step of the thread that writes to no socket,
\* changes no order and goes on to the next step of the behavior.
WaitForIsImmediate ==
    [][\A c \in Conns :
          (th[c].pc = "scen" /\ Head(th[c].steps).k = "wait_for" /\ Steps(c)) =>
              /\ emitted' = NoEmit
              /\ recs' = recs /\ orders' = orders /\ wire' = wire
              /\ th'[c] = IF Tail(th[c].steps) = <<>> THEN Idle
                          ELSE [th[c] EXCEPT !.steps = Tail(@)]]_vars

\* C33: runBehavior on a behavior of send (known action), delay, wait_for
\* and end steps always terminates and its handler is back at reading input;
\* a wait_for step returns at once without a message and without a change to
\* any order.
C33_BehaviorTerminatesAndHandlerReads ==
    /\ \A c \in Conns : (th[c].pc = "scen") ~> (th[c].pc = "read")
    /\ WaitForIsImmediate

\* C34: whenever no handler is in the middle of a message, every key k of
\* the order store holds a record with currentClOrdId = k and
\* lastClOrdId = k, after any sequence of D, F and G messages.
C34_StoreKeyIsCurrentClOrdId ==
    AllQuiescent =>
        \A k \in DOMAIN orders :
            recs[orders[k]].currentClOrdId = k /\ recs[orders[k]].lastClOrdId = k

\* C35: once the status of an order is Canceled no step gives it a fill: no
\* step increases its cumQty, writes a report with 150 in {1, 2} for it, or
\* changes its status to PartiallyFilled, Filled or Replaced.
C35_CanceledOrderIsNeverFilled ==
    [][\A r \in 1..Len(recs) :
          recs[r].status = "CANCELED" =>
              /\ ~FGt0(FSub(recs'[r].cumQty, recs[r].cumQty))
              /\ recs'[r].status \notin {"PARTIALLY_FILLED", "FILLED", "REPLACED"}
              /\ ~(emitted'.m.rid = r /\ emitted'.m.t150 \in {"1", "2"})]_vars

\* C36: the cumQty of an order never decreases: every ExecutionReport with
\* tag 14 reports a value greater than or equal to that of every earlier
\* report for the order.  (Only scenario reports carry tag 14, and each
\* writes the value it reports into the order, so the cumQty of the order is
\* the value of its last report, 0 before the first.  A report of nan, which
\* compares with nothing, is left aside.)
C36_CumQtyNeverDecreases ==
    [][\A r \in 1..Len(recs) :
          (emitted'.m.rid = r /\ emitted'.m.t14 \notin {NoQ, NaN} /\ recs[r].cumQty # NaN) =>
              FLe(recs[r].cumQty, emitted'.m.t14)]_vars

\* C37: every message a handler writes (reject, ack or scenario report) goes
\* to the socket of its own connection, the one that sent the request: the
\* reports of a behavior started by B's replace of an order created on A are
\* written to B's socket, never to A's.
C37_RepliesGoToTheRequester ==
    [][emitted' # NoEmit => emitted'.sock = emitted'.by]_vars

\* C38: every ExecutionReport the emulator emits for an accepted order
\* (new-order ack, cancel ack, replace ack, scenario report) has all the tags
\* the validator requires of MsgType 8 and none outside its allowed set: the
\* capture of the report is certified "Valid ExecutionReport".
C38_OwnReportsAreCertified ==
    cert.pc = "validated" =>
        /\ Len(cert.results) = 1
        /\ cert.results[1].verdict =
              [mark |-> "Valid", label |-> "ExecutionReport", errors |-> <<>>]
        /\ MissingOf(cert.parsedMessages[1]) = {}
        /\ UnexpectedOf(cert.parsedMessages[1]) = {}

\* The conditional pairs of the message's schema that the message carries
\* with both tags.
WholePairsOf(msg) ==
    {pair \in Range(Schema(MsgGet(msg, Dec(35))).pairs) :
        pair[1] \in TagsOf(msg) /\ pair[2] \in TagsOf(msg)}

\* C39: a message of MsgType A, D or 8 with all its required tags, both tags
\* of a conditional pair (48 and 22, or 95 and 96) and no other tag outside
\* its schema gets the verdict Valid: a pair with both sides present is
\* never itself reported as an error.
C39_WholePairIsValid ==
    cert.pc = "validated" =>
        \A idx \in 1..Len(cert.parsedMessages) :
            LET msg == cert.parsedMessages[idx]
            IN  (/\ MsgGet(msg, Dec(35)) \in {<<65>>, <<68>>, Dec(8)}
                 /\ MissingOf(msg) = {}
                 /\ WholePairsOf(msg) # {}
                 /\ HalfPairsOf(msg) = {}
                 /\ UnexpectedOf(msg) \subseteq UNION {Range(pair) : pair \in WholePairsOf(msg)})
                => VerdictOf(idx).mark = "Valid"

\* C40: while the behavior that a NewOrderSingle started is running on a
\* connection whose socket is open, every send step with a known action other
\* than new emits exactly one scenario report, on behalf of that connection
\* and about the order that NewOrderSingle stored, whatever the other
\* connections have done to the order in between.
C40_SendStepsReportTheirOrder ==
    [][\A c \in Conns : \A r \in 1..Len(recs) :
         (/\ Steps(c) /\ RunsBehaviorOf(c, r)
          /\ wire[c].open
          /\ Head(th[c].steps).k = "send"
          /\ Head(th[c].steps).a \in KnownActions \ {"new"})
         => /\ emitted' # NoEmit
            /\ emitted'.by = c
            /\ emitted'.m.kind = "scenario"
            /\ emitted'.m.rid = r]_vars

====
